---- MODULE Spec2Model ----
(***************************************************************************)
(* Nova assistant: the command router (assistant.py), the memory store it  *)
(* logs to (skills/digital_twin.py over core/database.py), the LLM backend *)
(* (core/knowledge.py) and the skill handlers it dispatches to.            *)
(*                                                                         *)
(* A text is a sequence of one-character strings, so that strip(), lower(),*)
(* split(), startswith() and the substring test `kw in t` are computed as  *)
(* Python computes them.                                                   *)
(***************************************************************************)
EXTENDS Integers, Sequences, FiniteSets, TLC

\* ------------------------------------------------------------------------
\* Python str operations
\* ------------------------------------------------------------------------

UPPER == <<"A","B","C","D","E","F","G","H","I","J","K","L","M","N","O","P","Q","R","S","T","U","V","W","X","Y","Z">>
LOWER == <<"a","b","c","d","e","f","g","h","i","j","k","l","m","n","o","p","q","r","s","t","u","v","w","x","y","z">>
DIGITS == {"0","1","2","3","4","5","6","7","8","9"}

\* the lowercase letter of each uppercase letter
ToLower == [c \in { UPPER[i] : i \in 1..Len(UPPER) } |->
              LOWER[CHOOSE i \in 1..Len(UPPER) : UPPER[i] = c]]

\* str.lower() on one character
LowerChar(c) == IF c \in DOMAIN ToLower THEN ToLower[c] ELSE c

\* str.lower()
RECURSIVE Lower(_)
Lower(s) == IF s = << >> THEN << >>
            ELSE << LowerChar(Head(s)) >> \o Lower(Tail(s))

IsSpace(c) == c = " "

\* str.strip()
Strip(s) ==
  IF \A i \in 1..Len(s) : IsSpace(s[i]) THEN << >>
  ELSE LET a == CHOOSE i \in 1..Len(s) :
                  ~IsSpace(s[i]) /\ \A j \in 1..(i-1) : IsSpace(s[j])
           b == CHOOSE i \in 1..Len(s) :
                  ~IsSpace(s[i]) /\ \A j \in (i+1)..Len(s) : IsSpace(s[j])
       IN SubSeq(s, a, b)

\* k in s
Contains(s, k) ==
  \E i \in 0..(Len(s) - Len(k)) : SubSeq(s, i+1, i+Len(k)) = k

\* any(k in s for k in ks)
ContainsAny(s, ks) == \E k \in ks : Contains(s, k)

\* s.startswith(k)
StartsWith(s, k) == Len(k) <= Len(s) /\ SubSeq(s, 1, Len(k)) = k

\* index of the first occurrence of k in s, 0 when there is none (str.find + 1)
Find(s, k) ==
  IF Contains(s, k)
  THEN CHOOSE i \in 1..(Len(s) - Len(k) + 1) :
         /\ SubSeq(s, i, i+Len(k)-1) = k
         /\ \A j \in 1..(i-1) : SubSeq(s, j, j+Len(k)-1) # k
  ELSE 0

\* s.split(k, 1): one or two parts
Split1(s, k) ==
  IF Find(s, k) = 0 THEN << s >>
  ELSE << SubSeq(s, 1, Find(s, k) - 1), SubSeq(s, Find(s, k) + Len(k), Len(s)) >>

\* s.split(): the words between runs of whitespace
RECURSIVE SplitFrom(_, _, _)
SplitFrom(s, i, cur) ==
  IF i > Len(s) THEN (IF cur = << >> THEN << >> ELSE << cur >>)
  ELSE IF IsSpace(s[i])
       THEN (IF cur = << >> THEN << >> ELSE << cur >>) \o SplitFrom(s, i+1, << >>)
       ELSE SplitFrom(s, i+1, Append(cur, s[i]))

Split(s) == SplitFrom(s, 1, << >>)

\* the elements of a sequence, as a set
Range(q) == { q[i] : i \in 1..Len(q) }

IsDigits(s) == s # << >> /\ \A i \in 1..Len(s) : s[i] \in DIGITS

DigitVal(c) == CHOOSE n \in 0..9 : <<"0","1","2","3","4","5","6","7","8","9">>[n+1] = c

\* int(s) for a string of decimal digits
RECURSIVE ToInt(_)
ToInt(s) == IF s = << >> THEN 0
            ELSE 10 * ToInt(SubSeq(s, 1, Len(s)-1)) + DigitVal(s[Len(s)])

\* ------------------------------------------------------------------------
\* Configuration (config.py) and the skill attributes of Assistant
\* ------------------------------------------------------------------------

\* the attributes of Assistant that hold a skill, in the order _init_skills and
\* _init_study_skills assign them
InitOrder ==
  << "pc", "predictor", "context", "emotion", "dark", "cross", "negotiator",
     "ar", "threat", "voice", "twin_agent", "coord",
     "study", "lecture", "kg", "exam", "skill", "collab", "lang_guard",
     "research", "autopilot" >>

Skills == Range(InitOrder)

\* skills built as `X(self.twin) if self.twin else None`
NeedsTwin ==
  { "predictor", "emotion", "negotiator", "threat", "twin_agent",
    "study", "lecture", "kg", "exam", "skill", "collab", "lang_guard",
    "research", "autopilot" }

\* skills whose class is named in the argument list of _safe_init itself, not
\* inside a lambda: the name is evaluated before _safe_init's try block
DirectRef == { "pc", "dark", "cross", "ar" }

\* the name _safe_init logs and records for each attribute
SkillName ==
  [ pc |-> "PC Control", predictor |-> "Predictor", context |-> "Hyper Context",
    emotion |-> "Emotion Watcher", dark |-> "Dark Web Watch",
    cross |-> "Cross Device", negotiator |-> "Negotiator", ar |-> "AR Overlay",
    threat |-> "Threat Mode", voice |-> "Voice Clone",
    twin_agent |-> "Doppelganger", coord |-> "Real World Coordinator",
    study |-> "Study Companion", lecture |-> "Lecture Assistant",
    kg |-> "Knowledge Graph", exam |-> "Exam Prep", skill |-> "Skill Builder",
    collab |-> "Collaborative Study", lang_guard |-> "Language Guardian",
    research |-> "Deep Research", autopilot |-> "Life Autopilot" ]

\* ENABLE_* toggles that are True in config.py (PC control has no toggle)
DefaultConfig ==
  { "context", "predictor", "study", "kg", "exam", "skill", "research" }

\* the feature-toggle settings explored: config.py as shipped, every toggle on,
\* every toggle on but hyper-context, and every toggle off
Configs ==
  { DefaultConfig,
    Skills \ {"pc"},
    Skills \ {"pc", "context"},
    { } }

REQUIRE_CONFIRMATION_FOR_PAYMENTS == TRUE
REQUIRE_CONFIRMATION_FOR_DEVICE_ACTIONS == TRUE
REQUIRE_EXPLICIT_CONSENT_FOR_RECORDING == TRUE
REQUIRE_EXPLICIT_CONSENT_FOR_STYLE_ADAPT == TRUE
BLOCK_REAL_PERSON_IMPERSONATION == TRUE
DEFAULT_AI_PROVIDER == "openai"

\* ------------------------------------------------------------------------
\* Bounds of the exploration
\* ------------------------------------------------------------------------

\* handle() calls per run
MaxCalls == 2

\* hour of the day (0..23) at which a run starts
StartHours == { 22 }

\* hours that pass before a handle() call: calls are made at 22h, 8h and 18h
Delays == { 0, 10 }

\* constructors that may raise in a run ("twin" is DigitalTwin())
CtorFailSets == { { }, { "twin" }, { "cross", "collab" } }

\* ------------------------------------------------------------------------
\* State
\* ------------------------------------------------------------------------

VARIABLES
  phase,                  \* "new", "ready" (constructed) or "crashed" (__init__ raised)
  twin,                   \* self.twin is not None
  skill,                  \* [attribute -> instance is not None]
  initialization_errors,  \* self.initialization_errors (the names recorded)
  active_provider,        \* knowledge._active_provider: "openai", "anthropic" or "none"
  conversations,          \* rows of the conversations table
  context_memory,         \* HyperContext.context_memory
  todos,                  \* twin.todos (LifeAutopilot)
  now,                    \* the clock, in hours
  calls,                  \* handle() calls made
  last,                   \* what the last handle() call did
  clients,                \* knowledge._openai_client, _anthropic_client are not None
  flashcard_sets,         \* number of sets in StudyCompanion.flashcard_sets
  user_preferences,       \* rows of the user_preferences table: [key -> value]
  learned,                \* the value last given to learn_preference, per key
  cleared,                \* clear_memory was called after the last handle()
  op,                     \* the last direct call of a twin method or of speak()
  thread,                 \* per thread, where it is inside handle_command
  lock,                   \* the holder of DatabaseManager.lock, 0 when free
  attempts                \* the remember_chat calls of the threads, in order

\* the state the direct twin calls work on, and the state of the threads
VARIABLES
  db_instance,            \* database._db_instance: 0 is None, else the instance
  db_created,             \* DatabaseManager instances constructed so far
  db_returned,            \* the instances get_db_manager has returned
  db_thread               \* per thread: where it is in get_db_manager

dbVars == << db_instance, db_created, db_returned, db_thread >>

VARIABLES
  received                \* the texts given to react_to_text by direct calls, in order

ctxVars == << received >>

VARIABLES
  pending_actions,        \* RealWorldCoordinator.pending_actions: the status of action i
  coordination_history    \* RealWorldCoordinator.coordination_history: the ids, in order

coordVars == << pending_actions, coordination_history >>

VARIABLES
  last_exam               \* twin.last_exam: the expected answers of the questions sampled

examVars == << last_exam >>

extVars == << dbVars, ctxVars, coordVars, examVars >>

\* coordinate_action calls that store an action, and approve_action calls
MaxActions == 3
MaxApprovals == 4

\* direct react_to_text calls made in a run, and how many of them may carry
\* the second text
MaxReacts == 53
MaxOdd == 1

\* the threads that call get_db_manager (each Streamlit session constructs
\* its Assistant, and with it a DigitalTwin, in its own thread)
DbThreads == { 1, 2 }

\* get_db_manager calls per thread
MaxGets == 2

DbIdle == [ at |-> "idle", made |-> 0, gets |-> 0 ]

storeVars == << user_preferences, learned, cleared, op >>
threadVars == << thread, lock, attempts >>

vars == << phase, twin, skill, initialization_errors, active_provider,
           conversations, context_memory, todos, now, calls, last,
           clients, flashcard_sets, user_preferences, learned, cleared, op,
           thread, lock, attempts,
           db_instance, db_created, db_returned, db_thread, received,
           pending_actions, coordination_history, last_exam >>

\* ------------------------------------------------------------------------
\* core/knowledge.py: provider selection
\* ------------------------------------------------------------------------

initialize_ai_backend_AnthropicFirst(openai_client, anthropic_client) ==
  IF anthropic_client THEN "anthropic"
  ELSE IF openai_client THEN "openai"
  ELSE "none"

\* initialize_ai_backend: the provider chosen, given which clients were built
initialize_ai_backend(openai_client, anthropic_client) ==
  IF DEFAULT_AI_PROVIDER = "anthropic" /\ anthropic_client THEN "anthropic"
  ELSE IF DEFAULT_AI_PROVIDER = "openai" /\ openai_client THEN "openai"
  ELSE IF anthropic_client THEN "anthropic"
  ELSE IF openai_client THEN "openai"
  ELSE "none"

\* ------------------------------------------------------------------------
\* Assistant.__init__
\* ------------------------------------------------------------------------

\* _safe_init for the attribute a, in a process where the skills import block
\* succeeded (import_ok) or was abandoned with an ImportError, the twin exists
\* or not, and the constructors in ctor_fail raise.
\*   "raise"  the class name is unbound and is evaluated outside _safe_init
\*   "error"  _safe_init caught an exception and recorded it
\*   "none"   the lambda returned None (no twin)
\*   "ok"     an instance
SafeInit(a, import_ok, has_twin, ctor_fail) ==
  IF ~import_ok /\ a \in DirectRef THEN "raise"
  ELSE IF a \in NeedsTwin /\ ~has_twin THEN "none"
  ELSE IF ~import_ok \/ a \in ctor_fail THEN "error"
  ELSE "ok"

\* _init_skills and _init_study_skills from attribute number i on; acc holds
\* the attributes assigned so far, the errors recorded and whether a NameError
\* escaped
RECURSIVE InitSkillsFrom(_, _, _, _, _, _)
InitSkillsFrom(i, acc, cfg, import_ok, has_twin, ctor_fail) ==
  IF i > Len(InitOrder) \/ acc.raised THEN acc
  ELSE LET a == InitOrder[i]
           enabled == a = "pc" \/ a \in cfg
           r == IF enabled THEN SafeInit(a, import_ok, has_twin, ctor_fail)
                ELSE "none"
       IN InitSkillsFrom(i + 1,
            [ skill  |-> [acc.skill EXCEPT ![a] = (r = "ok")],
              errors |-> IF r = "error" THEN Append(acc.errors, SkillName[a])
                         ELSE acc.errors,
              raised |-> r = "raise" ],
            cfg, import_ok, has_twin, ctor_fail)

\* bookkeeping of the last handle() call: the text given, what was returned,
\* whether an exception escaped, the skill handlers called (in order), those
\* that raised, whether hyper-context gave the response, whether the LLM
\* backend was called, with what and what became of the provider call, the
\* roles of the turns written, and what produced the response
NoCall ==
  [ called |-> FALSE, text |-> << >>,
    response |-> [src |-> "none", kind |-> "None", arg |-> << >>, n |-> 0, e |-> 0],
    raised |-> FALSE, invoked |-> << >>, given |-> << >>, logged |-> << >>,
    raisedIn |-> { }, tip |-> FALSE,
    llm |-> FALSE, query |-> << >>, backend |-> "unused", written |-> << >>,
    by |-> "nobody" ]

\* the preference keys and values explored; NoValue stands for "never given"
PrefKeys == { "theme", "language" }
PrefValues == { "dark", "light" }
NoValue == "no value"

\* the threads that call handle() concurrently; 0 is no thread
Threads == { 1, 2 }

\* no direct call made yet
NoOp == [ name |-> "none", key |-> "none", arg |-> NoValue, result |-> NoValue ]

\* a thread that is not inside handle_command
Idle == [ at |-> "idle", text |-> << >>, response |-> NoCall.response ]

Init ==
  /\ phase = "new"
  /\ twin = FALSE
  /\ skill = [a \in Skills |-> FALSE]
  /\ initialization_errors = << >>
  /\ active_provider = "none"
  /\ conversations = << >>
  /\ context_memory = << >>
  /\ todos = << >>
  /\ now \in StartHours
  /\ calls = 0
  /\ last = NoCall
  /\ clients = [openai |-> FALSE, anthropic |-> FALSE]
  /\ flashcard_sets = 0
  /\ user_preferences = [k \in PrefKeys |-> NoValue]
  /\ learned = [k \in PrefKeys |-> NoValue]
  /\ cleared = FALSE
  /\ op = NoOp
  /\ thread = [t \in Threads |-> Idle]
  /\ lock = 0
  /\ attempts = << >>
  /\ db_instance = 0
  /\ db_created = 0
  /\ db_returned = { }
  /\ db_thread = [t \in DbThreads |-> DbIdle]
  /\ received = << >>
  /\ pending_actions = << >>
  /\ coordination_history = << >>
  /\ last_exam = << >>

\* Assistant(): the AI backend, the twin, then every skill
Construct(cfg, import_ok, ctor_fail, openai_client, anthropic_client) ==
  /\ phase = "new"
  /\ LET has_twin == import_ok /\ "twin" \notin ctor_fail
         errs0 == IF has_twin THEN << >> ELSE << "Digital twin" >>
         r == InitSkillsFrom(1,
                [ skill |-> [a \in Skills |-> FALSE], errors |-> errs0,
                  raised |-> FALSE ],
                cfg, import_ok, has_twin, ctor_fail)
     IN /\ active_provider' = initialize_ai_backend(openai_client, anthropic_client)
        /\ clients' = [openai |-> openai_client, anthropic |-> anthropic_client]
        /\ twin' = has_twin
        /\ skill' = r.skill
        /\ initialization_errors' = r.errors
        /\ phase' = IF r.raised THEN "crashed" ELSE "ready"
  /\ UNCHANGED << extVars, conversations, context_memory, todos, now, calls, last,
                  flashcard_sets, storeVars, threadVars >>

\* ------------------------------------------------------------------------
\* Responses
\* ------------------------------------------------------------------------

\* A response text is named by the code that builds it (src), which of that
\* code's texts it is (kind) and what is formatted into it (arg, n, e).
RA(src, kind, arg) == [src |-> src, kind |-> kind, arg |-> arg, n |-> 0, e |-> 0]
R(src, kind) == RA(src, kind, << >>)

\* Python's None
None == R("none", "None")

\* the empty string
EmptyStr == R("none", "empty")

\* `if x:` for x a str or None
Truthy(r) == r # None /\ r.kind # "empty"

\* what a handler call did: it returned val or raised; the todo list after it
Ret(val, td) == [raised |-> FALSE, val |-> val, todos |-> td]
Raise(td) == [raised |-> TRUE, val |-> None, todos |-> td]

\* ------------------------------------------------------------------------
\* skills/pc_control.py
\* ------------------------------------------------------------------------

\* platform.system().lower() of the machine the assistant runs on
PLATFORM == "linux"

\* how a call into the operating system (webbrowser.open, subprocess) ends
OsOutcomes == { "ok", "not_found", "error" }

\* PCControl._open_url
PCControl_open_url(url, os) ==
  LET u == IF StartsWith(url, <<"h","t","t","p",":","/","/">>) \/ StartsWith(url, <<"h","t","t","p","s",":","/","/">>)
           THEN url ELSE <<"h","t","t","p","s",":","/","/">> \o url
  IN IF os = "error" THEN R("pc", "failed_open_url") ELSE RA("pc", "opened_url", u)

\* PCControl._init_app_mappings for PLATFORM: the names and their commands,
\* in the dict's order
app_mappings ==
  << << <<"f","i","r","e","f","o","x">>, <<"f","i","r","e","f","o","x">> >>,
     << <<"c","h","r","o","m","e">>, <<"g","o","o","g","l","e","-","c","h","r","o","m","e">> >>,
     << <<"t","e","r","m","i","n","a","l">>, <<"g","n","o","m","e","-","t","e","r","m","i","n","a","l">> >>,
     << <<"f","i","l","e"," ","m","a","n","a","g","e","r">>, <<"n","a","u","t","i","l","u","s">> >>,
     << <<"c","a","l","c","u","l","a","t","o","r">>, <<"g","n","o","m","e","-","c","a","l","c","u","l","a","t","o","r">> >>,
     << <<"t","e","x","t"," ","e","d","i","t","o","r">>, <<"g","e","d","i","t">> >>,
     << <<"s","y","s","t","e","m"," ","m","o","n","i","t","o","r">>, <<"g","n","o","m","e","-","s","y","s","t","e","m","-","m","o","n","i","t","o","r">> >> >>

\* the command _open_application hands to subprocess.Popen(..., shell=True):
\* that of the first mapping whose name holds app_name or is held by it,
\* else app_name itself
app_command(app_name) ==
  LET hits == { i \in 1..Len(app_mappings) :
                  \/ Contains(app_mappings[i][1], app_name)
                  \/ Contains(app_name, app_mappings[i][1]) }
  IN IF hits = { } THEN app_name
     ELSE app_mappings[CHOOSE i \in hits : \A j \in hits : i <= j][2]

\* PCControl._open_application
PCControl_open_application(app_name, os) ==
  IF os = "ok" THEN RA("pc", "opened_app", app_name)
  ELSE IF os = "not_found" THEN RA("pc", "app_not_found", app_name)
  ELSE RA("pc", "failed_open_app", app_name)

\* PCControl._handle_open_command
PCControl_handle_open_command(command, os) ==
  LET prefix == IF StartsWith(command, <<"o","p","e","n"," ">>) THEN <<"o","p","e","n"," ">>
                ELSE IF StartsWith(command, <<"l","a","u","n","c","h"," ">>) THEN <<"l","a","u","n","c","h"," ">>
                ELSE <<"s","t","a","r","t"," ">>
      app_name == Strip(SubSeq(command, Len(prefix) + 1, Len(command)))
  IN IF \/ StartsWith(app_name, <<"h","t","t","p",":","/","/">>) \/ StartsWith(app_name, <<"h","t","t","p","s",":","/","/">>)
        \/ StartsWith(app_name, <<"w","w","w",".">>)
     THEN PCControl_open_url(app_name, os)
     ELSE IF app_name \in { <<"y","o","u","t","u","b","e">>, <<"y","o","u","t","u","b","e",".","c","o","m">> }
          THEN PCControl_open_url(<<"h","t","t","p","s",":","/","/","y","o","u","t","u","b","e",".","c","o","m">>, os)
     ELSE IF app_name \in { <<"g","o","o","g","l","e">>, <<"g","o","o","g","l","e",".","c","o","m">> }
          THEN PCControl_open_url(<<"h","t","t","p","s",":","/","/","g","o","o","g","l","e",".","c","o","m">>, os)
     ELSE IF app_name \in { <<"g","i","t","h","u","b">>, <<"g","i","t","h","u","b",".","c","o","m">> }
          THEN PCControl_open_url(<<"h","t","t","p","s",":","/","/","g","i","t","h","u","b",".","c","o","m">>, os)
     ELSE IF app_name \in { <<"g","m","a","i","l">>, <<"e","m","a","i","l">> }
          THEN PCControl_open_url(<<"h","t","t","p","s",":","/","/","g","m","a","i","l",".","c","o","m">>, os)
     ELSE PCControl_open_application(app_name, os)

\* PCControl._handle_close_command
PCControl_handle_close_command(command, os) ==
  LET prefix == IF StartsWith(command, <<"c","l","o","s","e"," ">>) THEN <<"c","l","o","s","e"," ">>
                ELSE IF StartsWith(command, <<"q","u","i","t"," ">>) THEN <<"q","u","i","t"," ">>
                ELSE <<"s","t","o","p"," ">>
      app_name == Strip(SubSeq(command, Len(prefix) + 1, Len(command)))
  IN IF os = "error" THEN R("pc", "failed_close")
     ELSE IF PLATFORM = "linux" THEN RA("pc", "attempted_close", app_name)
     ELSE IF os = "ok" THEN RA("pc", "closed", app_name)
     ELSE RA("pc", "could_not_close", app_name)

\* PCControl._handle_system_command (with _confirm_system_action, _system_sleep,
\* _system_lock)
PCControl_handle_system_command(command, os) ==
  IF Contains(command, <<"s","h","u","t","d","o","w","n">>) THEN R("pc", "confirm_shutdown")
  ELSE IF Contains(command, <<"r","e","s","t","a","r","t">>) THEN R("pc", "confirm_restart")
  ELSE IF Contains(command, <<"s","l","e","e","p">>)
       THEN (IF os = "ok" THEN R("pc", "sleeping") ELSE R("pc", "failed_sleep"))
  ELSE IF Contains(command, <<"l","o","c","k">>)
       THEN (IF os = "ok" THEN R("pc", "locked") ELSE R("pc", "failed_lock"))
  ELSE R("pc", "system_not_recognized")

\* PCControl._handle_file_operation
PCControl_handle_file_operation(command) ==
  IF Contains(command, <<"c","r","e","a","t","e"," ","f","i","l","e">>) THEN R("pc", "file_create_needs_path")
  ELSE IF Contains(command, <<"d","e","l","e","t","e"," ","f","i","l","e">>) THEN R("pc", "file_delete_needs_confirmation")
  ELSE IF Contains(command, <<"c","o","p","y"," ","f","i","l","e">>) THEN R("pc", "file_copy_needs_paths")
  ELSE R("pc", "file_not_supported")

\* PCControl._handle_volume_control
PCControl_handle_volume_control(command, os) ==
  IF PLATFORM = "windows" THEN R("pc", "volume_windows_setup")
  ELSE IF PLATFORM = "darwin"
       THEN (IF os # "ok" THEN R("pc", "failed_volume")
             ELSE IF Contains(command, <<"v","o","l","u","m","e"," ","u","p">>) THEN R("pc", "volume_increased")
             ELSE IF Contains(command, <<"v","o","l","u","m","e"," ","d","o","w","n">>) THEN R("pc", "volume_decreased")
             ELSE R("pc", "muted"))
  ELSE R("pc", "volume_linux_setup")

\* PCControl.route
PCControl_route(command, os) ==
  LET command_lower == Strip(Lower(command))
  IN IF \E p \in { <<"o","p","e","n"," ">>, <<"l","a","u","n","c","h"," ">>, <<"s","t","a","r","t"," ">> } : StartsWith(command_lower, p)
     THEN PCControl_handle_open_command(command_lower, os)
     ELSE IF \E p \in { <<"c","l","o","s","e"," ">>, <<"q","u","i","t"," ">>, <<"s","t","o","p"," ">> } : StartsWith(command_lower, p)
     THEN PCControl_handle_close_command(command_lower, os)
     ELSE IF ContainsAny(command_lower, { <<"s","h","u","t","d","o","w","n">>, <<"r","e","s","t","a","r","t">>, <<"s","l","e","e","p">>, <<"l","o","c","k">> })
     THEN PCControl_handle_system_command(command_lower, os)
     ELSE IF ContainsAny(command_lower, { <<"c","r","e","a","t","e"," ","f","i","l","e">>, <<"d","e","l","e","t","e"," ","f","i","l","e">>, <<"c","o","p","y"," ","f","i","l","e">> })
     THEN PCControl_handle_file_operation(command_lower)
     ELSE IF ContainsAny(command_lower, { <<"v","o","l","u","m","e"," ","u","p">>, <<"v","o","l","u","m","e"," ","d","o","w","n">>, <<"m","u","t","e">> })
     THEN PCControl_handle_volume_control(command_lower, os)
     ELSE None

\* ------------------------------------------------------------------------
\* skills/hyper_context.py
\* ------------------------------------------------------------------------

max_context_items == 50

\* hour of the day of a clock value
HourOf(ts) == ts % 24

\* the last n items of a list: q[-n:]
LastN(q, n) == IF Len(q) <= n THEN q ELSE SubSeq(q, Len(q) - n + 1, Len(q))

\* HyperContext._extract_intent_markers
extract_intent_markers(text) ==
  LET text_lower == Lower(text)
      m(name, words) == IF ContainsAny(text_lower, words) THEN << name >> ELSE << >>
  IN    m("task_management", { <<"t","o","d","o">>, <<"t","a","s","k">>, <<"r","e","m","i","n","d">>, <<"s","c","h","e","d","u","l","e">> })
     \o m("learning", { <<"l","e","a","r","n">>, <<"s","t","u","d","y">>, <<"u","n","d","e","r","s","t","a","n","d">>, <<"e","x","p","l","a","i","n">> })
     \o m("creative", { <<"c","r","e","a","t","e">>, <<"w","r","i","t","e">>, <<"d","e","s","i","g","n">>, <<"m","a","k","e">> })
     \o m("information_seeking", { <<"w","h","a","t">>, <<"h","o","w">>, <<"w","h","y">>, <<"w","h","e","n">>, <<"w","h","e","r","e">> })
     \o m("problem_solving", { <<"p","r","o","b","l","e","m">>, <<"i","s","s","u","e">>, <<"f","i","x">>, <<"s","o","l","v","e">>, <<"d","e","b","u","g">> })

store_context_item_KeepsOldest(ctx, text, ts) ==
  SubSeq(Append(ctx, [text |-> text, timestamp |-> ts,
                      intent_markers |-> extract_intent_markers(text)]),
         1, IF Len(ctx) + 1 <= max_context_items THEN Len(ctx) + 1 ELSE max_context_items)

\* HyperContext._store_context_item
store_context_item(ctx, text, ts) ==
  LastN(Append(ctx, [text |-> text, timestamp |-> ts,
                     intent_markers |-> extract_intent_markers(text)]),
        max_context_items)

\* the concatenation of the intent markers of all items, in order
RECURSIVE AllIntents(_)
AllIntents(items) ==
  IF items = << >> THEN << >>
  ELSE Head(items).intent_markers \o AllIntents(Tail(items))

\* number of occurrences of x in the list q
Count(q, x) == Cardinality({ i \in 1..Len(q) : q[i] = x })

\* HyperContext._analyze_time_patterns: common_activities[0], or "" when the
\* result has no common activity (the most frequent intent, the first seen
\* among equals: sorted() is stable)
analyze_time_patterns_top(ctx, start_hour, end_hour) ==
  LET InRange(item) == start_hour <= HourOf(item.timestamp)
                       /\ HourOf(item.timestamp) <= end_hour
      all_intents == AllIntents(SelectSeq(ctx, InRange))
  IN IF all_intents = << >> THEN ""
     ELSE all_intents[CHOOSE i \in 1..Len(all_intents) :
            /\ \A j \in 1..Len(all_intents) :
                 Count(all_intents, all_intents[j]) <= Count(all_intents, all_intents[i])
            /\ \A j \in 1..(i-1) :
                 Count(all_intents, all_intents[j]) < Count(all_intents, all_intents[i])]

\* HyperContext._get_morning_context_suggestion
get_morning_context_suggestion(ctx) ==
  LET top == analyze_time_patterns_top(ctx, 6, 9)
  IN IF top # "" THEN [R("context", "morning_usual_routine") EXCEPT !.arg = << top >>]
     ELSE R("context", "morning_suggestion_of_the_day")

\* HyperContext._get_work_hours_suggestion
get_work_hours_suggestion(ctx) ==
  LET Work(item) == \E mk \in { "task_management", "problem_solving" } :
                      mk \in Range(item.intent_markers)
  IN IF Len(SelectSeq(LastN(ctx, 10), Work)) > 3
     THEN R("context", "productive_flow")
     ELSE R("context", "focused_work")

\* HyperContext._get_learning_context_suggestion
get_learning_context_suggestion(ctx, text) ==
  LET text_lower == Lower(text)
      Learning(item) == "learning" \in Range(item.intent_markers)
  IN IF ContainsAny(text_lower, { <<"m","a","t","h">>, <<"p","h","y","s","i","c","s">>, <<"c","h","e","m","i","s","t","r","y">> })
     THEN R("context", "learning_stem")
     ELSE IF ContainsAny(text_lower, { <<"h","i","s","t","o","r","y">>, <<"l","i","t","e","r","a","t","u","r","e">>, <<"l","a","n","g","u","a","g","e">> })
     THEN R("context", "learning_humanities")
     ELSE IF ContainsAny(text_lower, { <<"p","r","o","g","r","a","m","m","i","n","g">>, <<"c","o","d","i","n","g">>, <<"s","o","f","t","w","a","r","e">> })
     THEN R("context", "learning_programming")
     ELSE IF Len(SelectSeq(LastN(ctx, 5), Learning)) > 2
     THEN R("context", "learning_streak")
     ELSE R("context", "learning_something_new")

\* HyperContext._detect_context_switching
detect_context_switching(ctx) ==
  IF Len(ctx) < 4 THEN FALSE
  ELSE LET recent_items == LastN(ctx, 4)
           Changed(i) ==
             LET prev == Range(recent_items[i-1].intent_markers)
                 curr == Range(recent_items[i].intent_markers)
             IN prev # { } /\ curr # { } /\ prev \cap curr = { }
       IN Cardinality({ i \in 2..Len(recent_items) : Changed(i) }) >= 2

\* HyperContext._analyze_context, at the hour current_hour
analyze_context(ctx, text, current_hour) ==
  LET text_lower == Lower(text)
  IN IF /\ 6 <= current_hour /\ current_hour <= 9
        /\ ContainsAny(text_lower, { <<"g","o","o","d"," ","m","o","r","n","i","n","g">>, <<"s","t","a","r","t">>, <<"b","e","g","i","n">> })
     THEN get_morning_context_suggestion(ctx)
     ELSE IF (current_hour >= 22 \/ current_hour <= 2) /\ ~Contains(text_lower, <<"s","l","e","e","p">>)
     THEN R("context", "getting_late")
     ELSE IF /\ 9 <= current_hour /\ current_hour <= 17
             /\ ContainsAny(text_lower, { <<"f","o","c","u","s">>, <<"w","o","r","k">>, <<"p","r","o","d","u","c","t","i","v","e">> })
     THEN get_work_hours_suggestion(ctx)
     ELSE IF ContainsAny(text_lower, { <<"s","t","u","d","y">>, <<"l","e","a","r","n">>, <<"p","r","a","c","t","i","c","e">> })
     THEN get_learning_context_suggestion(ctx, text)
     ELSE IF detect_context_switching(ctx)
     THEN R("context", "switching_tasks")
     ELSE None

\* HyperContext._detect_repetitive_pattern
detect_repetitive_pattern(items) ==
  IF Len(items) < 3 THEN None
  ELSE LET recent == LastN(items, 3)
           words(i) == Range(Split(Lower(recent[i].text)))
           common_words == words(1) \cap words(2) \cap words(3)
           meaningful_common == { w \in common_words : Len(w) > 3 }
       IN IF Cardinality(meaningful_common) >= 2
          THEN R("context", "similar_topics") ELSE None

\* HyperContext._detect_procrastination_pattern: the number of items whose
\* (non-empty) intents differ from the last non-empty intents seen
RECURSIVE IntentSwitches(_, _, _)
IntentSwitches(items, i, last_intent) ==
  IF i > Len(items) THEN 0
  ELSE LET cur == items[i].intent_markers
       IN IF cur # << >> /\ << cur >> # last_intent
          THEN 1 + IntentSwitches(items, i + 1, << cur >>)
          ELSE IntentSwitches(items, i + 1, last_intent)

detect_procrastination_pattern(items) ==
  IF Len(items) < 5 THEN None
  ELSE IF 10 * IntentSwitches(items, 1, << >>) > 7 * Len(items)
       THEN R("context", "jumping_between_topics") ELSE None

\* HyperContext._detect_learning_fatigue (a time span of more than two hours)
detect_learning_fatigue(items) ==
  LET Learning(item) == "learning" \in Range(item.intent_markers)
      learning_items == SelectSeq(items, Learning)
  IN IF /\ Len(learning_items) >= 4
        /\ learning_items[Len(learning_items)].timestamp - learning_items[1].timestamp > 2
     THEN R("context", "learning_for_a_while") ELSE None

\* HyperContext._detect_productive_streak
detect_productive_streak(items) ==
  LET Productive(item) ==
        \E mk \in { "task_management", "problem_solving", "creative" } :
          mk \in Range(item.intent_markers)
  IN IF Len(SelectSeq(items, Productive)) >= 3
     THEN R("context", "productive_streak") ELSE None

\* HyperContext._check_behavioral_patterns
check_behavioral_patterns(ctx) ==
  IF Len(ctx) < 5 THEN None
  ELSE LET recent_items == LastN(ctx, 10)
       IN IF detect_repetitive_pattern(recent_items) # None
          THEN detect_repetitive_pattern(recent_items)
          ELSE IF detect_procrastination_pattern(recent_items) # None
          THEN detect_procrastination_pattern(recent_items)
          ELSE IF detect_learning_fatigue(recent_items) # None
          THEN detect_learning_fatigue(recent_items)
          ELSE detect_productive_streak(recent_items)

\* HyperContext.react_to_text: the tip (or None) and context_memory after it
react_to_text(ctx, text, ts) ==
  LET ctx1 == store_context_item(ctx, text, ts)
      context_response == analyze_context(ctx1, text, HourOf(ts))
  IN [ tip |-> IF Truthy(context_response) THEN context_response
               ELSE check_behavioral_patterns(ctx1),
       ctx |-> ctx1 ]

\* ------------------------------------------------------------------------
\* Skills whose route() picks one of several pre-written texts by the first
\* phrase list that has a phrase in the lowercased text. A table row names the
\* phrases, the sub-handler that returns the text, and whether that
\* sub-handler branches on the flag route() was given.
\* ------------------------------------------------------------------------

Row(phrases, handler, gated) == [phrases |-> phrases, handler |-> handler, gated |-> gated]

\* the if/elif chain of a route() from row i on: the text of the first row
\* with a phrase in text_lower, else `otherwise`
RECURSIVE RoutePhrasesFrom(_, _, _, _, _, _)
RoutePhrasesFrom(i, src, table, text_lower, flag, otherwise) ==
  IF i > Len(table) THEN otherwise
  ELSE IF ContainsAny(text_lower, table[i].phrases)
  THEN RA(src, table[i].handler,
          IF table[i].gated
          THEN (IF flag THEN << "flag_set" >> ELSE << "flag_clear" >>)
          ELSE << >>)
  ELSE RoutePhrasesFrom(i + 1, src, table, text_lower, flag, otherwise)

RoutePhrases(src, table, text_lower, flag, otherwise) ==
  RoutePhrasesFrom(1, src, table, text_lower, flag, otherwise)

\* skills/cross_device.py, CrossDevice.route
CrossDevice_route(text, require_confirmation) ==
  RoutePhrases("cross",
    << Row({ <<"d","e","v","i","c","e"," ","s","t","a","t","u","s">>, <<"c","o","n","n","e","c","t","e","d"," ","d","e","v","i","c","e","s">>, <<"m","y"," ","d","e","v","i","c","e","s">> }, "_get_device_status", FALSE),
       Row({ <<"s","h","a","r","e"," ","f","i","l","e">>, <<"s","e","n","d"," ","t","o"," ","d","e","v","i","c","e">>, <<"s","y","n","c"," ","f","i","l","e">> }, "_handle_file_sharing_request", TRUE),
       Row({ <<"s","y","n","c"," ","n","o","t","i","f","i","c","a","t","i","o","n","s">>, <<"n","o","t","i","f","i","c","a","t","i","o","n"," ","s","y","n","c">>, <<"m","i","r","r","o","r"," ","n","o","t","i","f","i","c","a","t","i","o","n","s">> }, "_handle_notification_sync", TRUE),
       Row({ <<"s","y","n","c"," ","c","l","i","p","b","o","a","r","d">>, <<"c","l","i","p","b","o","a","r","d"," ","s","y","n","c">>, <<"s","h","a","r","e"," ","c","l","i","p","b","o","a","r","d">> }, "_handle_clipboard_sync", TRUE),
       Row({ <<"r","e","m","o","t","e"," ","c","o","n","t","r","o","l">>, <<"c","o","n","t","r","o","l"," ","d","e","v","i","c","e">>, <<"r","e","m","o","t","e"," ","a","c","c","e","s","s">> }, "_handle_remote_control_request", TRUE),
       Row({ <<"c","o","n","t","i","n","u","e"," ","o","n">>, <<"s","w","i","t","c","h"," ","d","e","v","i","c","e">>, <<"h","a","n","d","o","f","f">> }, "_handle_session_continuity", TRUE) >>,
    Lower(text), require_confirmation, None)

\* skills/dark_web_watch.py, DarkWebWatch.route
DarkWebWatch_route(text) ==
  RoutePhrases("dark",
    << Row({ <<"c","h","e","c","k"," ","e","m","a","i","l">>, <<"e","m","a","i","l"," ","b","r","e","a","c","h">>, <<"b","e","e","n"," ","p","w","n","e","d">>, <<"e","m","a","i","l"," ","c","o","m","p","r","o","m","i","s","e","d">> }, "_handle_email_check_request", FALSE),
       Row({ <<"s","e","c","u","r","i","t","y"," ","s","t","a","t","u","s">>, <<"a","m"," ","i"," ","s","a","f","e">>, <<"s","e","c","u","r","i","t","y"," ","c","h","e","c","k">> }, "_provide_security_overview", FALSE),
       Row({ <<"l","a","t","e","s","t"," ","b","r","e","a","c","h","e","s">>, <<"r","e","c","e","n","t"," ","b","r","e","a","c","h","e","s">>, <<"n","e","w"," ","b","r","e","a","c","h","e","s">> }, "_get_recent_breaches", FALSE),
       Row({ <<"s","e","c","u","r","i","t","y"," ","t","i","p","s">>, <<"s","t","a","y"," ","s","a","f","e">>, <<"p","r","o","t","e","c","t"," ","m","y","s","e","l","f">> }, "_provide_security_tips", FALSE),
       Row({ <<"p","a","s","s","w","o","r","d"," ","s","e","c","u","r","i","t","y">>, <<"s","t","r","o","n","g"," ","p","a","s","s","w","o","r","d">>, <<"p","a","s","s","w","o","r","d"," ","h","e","l","p">> }, "_provide_password_guidance", FALSE) >>,
    Lower(text), FALSE, R("dark", "_provide_general_awareness"))

\* skills/threat_mode.py, ThreatMode.route
ThreatMode_route(text) ==
  RoutePhrases("threat",
    << Row({ <<"a","n","a","l","y","z","e"," ","t","h","r","e","a","t">>, <<"c","h","e","c","k"," ","t","h","r","e","a","t">>, <<"t","h","r","e","a","t"," ","a","n","a","l","y","s","i","s">> }, "_analyze_potential_threat", FALSE),
       Row({ <<"p","h","i","s","h","i","n","g"," ","c","h","e","c","k">>, <<"s","u","s","p","i","c","i","o","u","s"," ","e","m","a","i","l">>, <<"e","m","a","i","l"," ","t","h","r","e","a","t">> }, "_analyze_phishing_threat", FALSE),
       Row({ <<"s","e","c","u","r","i","t","y"," ","s","c","a","n">>, <<"s","c","a","n"," ","t","h","r","e","a","t","s">>, <<"s","y","s","t","e","m"," ","c","h","e","c","k">> }, "_perform_security_scan", FALSE),
       Row({ <<"t","h","r","e","a","t"," ","i","n","t","e","l","l","i","g","e","n","c","e">>, <<"c","u","r","r","e","n","t"," ","t","h","r","e","a","t","s">>, <<"t","h","r","e","a","t"," ","l","a","n","d","s","c","a","p","e">> }, "_provide_threat_intelligence", FALSE),
       Row({ <<"i","n","c","i","d","e","n","t"," ","r","e","s","p","o","n","s","e">>, <<"b","e","e","n"," ","h","a","c","k","e","d">>, <<"c","o","m","p","r","o","m","i","s","e","d">> }, "_provide_incident_response", FALSE),
       Row({ <<"s","e","c","u","r","i","t","y"," ","r","e","c","o","m","m","e","n","d","a","t","i","o","n","s">>, <<"i","m","p","r","o","v","e"," ","s","e","c","u","r","i","t","y">>, <<"p","r","o","t","e","c","t"," ","m","y","s","e","l","f">> }, "_provide_security_recommendations", FALSE) >>,
    Lower(text), FALSE, R("threat", "_activate_threat_mode"))

\* skills/negotiator.py, Negotiator.route (require_confirm is not read)
Negotiator_route(text, require_confirm) ==
  RoutePhrases("negotiator",
    << Row({ <<"c","o","m","p","a","r","e"," ","p","r","i","c","e","s">>, <<"f","i","n","d"," ","d","e","a","l","s">>, <<"b","e","s","t"," ","p","r","i","c","e">> }, "_handle_price_comparison", FALSE),
       Row({ <<"n","e","g","o","t","i","a","t","e">>, <<"l","o","w","e","r"," ","p","r","i","c","e">>, <<"d","i","s","c","o","u","n","t">>, <<"d","e","a","l">> }, "_provide_negotiation_strategies", FALSE),
       Row({ <<"s","u","b","s","c","r","i","p","t","i","o","n">>, <<"m","o","n","t","h","l","y"," ","p","a","y","m","e","n","t">>, <<"c","a","n","c","e","l"," ","s","u","b","s","c","r","i","p","t","i","o","n">> }, "_handle_subscription_optimization", FALSE),
       Row({ <<"s","e","r","v","i","c","e"," ","q","u","o","t","e">>, <<"c","o","n","t","r","a","c","t","o","r">>, <<"e","s","t","i","m","a","t","e">> }, "_handle_service_negotiation", FALSE),
       Row({ <<"s","a","l","a","r","y"," ","n","e","g","o","t","i","a","t","i","o","n">>, <<"r","a","i","s","e">>, <<"p","r","o","m","o","t","i","o","n">> }, "_handle_salary_negotiation", FALSE) >>,
    Lower(text), require_confirm, R("negotiator", "_provide_general_negotiation_advice"))

\* skills/ar_overlay.py, AROverlay.route: each sub-handler returns its
\* "requires ... consent" text when `consent` is false
AROverlay_route(text, consent) ==
  RoutePhrases("ar",
    << Row({ <<"w","h","a","t"," ","i","s"," ","t","h","i","s">>, <<"i","d","e","n","t","i","f","y"," ","o","b","j","e","c","t">>, <<"r","e","c","o","g","n","i","z","e"," ","t","h","i","s">> }, "_handle_object_recognition_request", TRUE),
       Row({ <<"r","e","a","d"," ","t","e","x","t">>, <<"o","c","r">>, <<"t","e","x","t"," ","r","e","c","o","g","n","i","t","i","o","n">>, <<"s","c","a","n"," ","t","e","x","t">> }, "_handle_text_recognition_request", TRUE),
       Row({ <<"a","r"," ","o","v","e","r","l","a","y">>, <<"i","n","f","o","r","m","a","t","i","o","n"," ","o","v","e","r","l","a","y">>, <<"a","u","g","m","e","n","t","e","d"," ","r","e","a","l","i","t","y">> }, "_handle_ar_overlay_request", TRUE),
       Row({ <<"l","i","v","e"," ","r","e","c","o","g","n","i","t","i","o","n">>, <<"r","e","a","l"," ","t","i","m","e">>, <<"c","a","m","e","r","a"," ","r","e","c","o","g","n","i","t","i","o","n">> }, "_handle_live_recognition_request", TRUE),
       Row({ <<"p","r","o","d","u","c","t"," ","i","n","f","o">>, <<"b","a","r","c","o","d","e"," ","s","c","a","n">>, <<"p","r","o","d","u","c","t"," ","r","e","c","o","g","n","i","t","i","o","n">> }, "_handle_product_identification", TRUE) >>,
    Lower(text), consent, None)

\* re.search(r'<prefix> [A-Z][a-z]+ [A-Z][a-z]+', text)
IsUpperChar(c) == \E i \in 1..Len(UPPER) : UPPER[i] = c
IsLowerChar(c) == \E i \in 1..Len(LOWER) : LOWER[i] = c

NamedPerson(text, prefix) ==
  \E i \in 1..(Len(text) - Len(prefix) + 1) :
    /\ SubSeq(text, i, i + Len(prefix) - 1) = prefix
    /\ \E a \in (i + Len(prefix))..Len(text), b \in (i + Len(prefix))..Len(text) :
         \* text[a..b-2] is [A-Z][a-z]+, text[b-1] the space, text[b..b+1] is [A-Z][a-z]
         /\ a = i + Len(prefix)
         /\ b >= a + 3 /\ b + 1 <= Len(text)
         /\ IsUpperChar(text[a])
         /\ \A j \in (a+1)..(b-2) : IsLowerChar(text[j])
         /\ text[b-1] = " "
         /\ IsUpperChar(text[b]) /\ IsLowerChar(text[b+1])

\* skills/voice_clone.py, VoiceClone._detect_impersonation_attempt
detect_impersonation_attempt(text, block_impersonation) ==
  /\ block_impersonation
  /\ \/ ContainsAny(Lower(text),
          { <<"s","p","e","a","k"," ","l","i","k","e"," ">>, <<"s","o","u","n","d"," ","l","i","k","e"," ">>, <<"i","m","p","e","r","s","o","n","a","t","e"," ">>, <<"p","r","e","t","e","n","d"," ","t","o"," ","b","e"," ">>,
            <<"a","c","t"," ","l","i","k","e"," ">>, <<"c","l","o","n","e"," ","v","o","i","c","e"," ","o","f"," ">>, <<"m","i","m","i","c"," ">>, <<"c","o","p","y"," ","v","o","i","c","e"," ","o","f"," ">> })
     \/ ContainsAny(Lower(text),
          { <<"p","o","l","i","t","i","c","i","a","n","s">>, <<"c","e","l","e","b","r","i","t","i","e","s">>, <<"i","n","f","l","u","e","n","c","e","r","s">>, <<"a","c","t","o","r","s">>, <<"s","i","n","g","e","r","s">>,
            <<"f","i","c","t","i","o","n","a","l"," ","c","h","a","r","a","c","t","e","r","s">>, <<"h","i","s","t","o","r","i","c","a","l"," ","f","i","g","u","r","e","s">>, <<"f","a","m","i","l","y"," ","m","e","m","b","e","r","s">>,
            <<"f","r","i","e","n","d","s">>, <<"c","o","l","l","e","a","g","u","e","s">>, <<"r","e","a","l"," ","p","e","o","p","l","e">> })
     \/ NamedPerson(text, <<"l","i","k","e"," ">>)
     \/ NamedPerson(text, <<"a","s"," ">>)

\* skills/voice_clone.py, VoiceClone.route
VoiceClone_route(text, require_style_consent) ==
  IF detect_impersonation_attempt(text, BLOCK_REAL_PERSON_IMPERSONATION)
  THEN R("voice", "_block_impersonation_request")
  ELSE RoutePhrases("voice",
    << Row({ <<"c","o","m","m","u","n","i","c","a","t","i","o","n"," ","s","t","y","l","e">>, <<"s","p","e","a","k","i","n","g"," ","s","t","y","l","e">>, <<"t","o","n","e">> }, "_handle_style_adaptation", TRUE),
       Row({ <<"p","r","o","f","e","s","s","i","o","n","a","l"," ","t","o","n","e">>, <<"f","r","i","e","n","d","l","y"," ","t","o","n","e">>, <<"f","o","r","m","a","l"," ","s","t","y","l","e">> }, "_provide_style_options", FALSE),
       Row({ <<"c","u","s","t","o","m","i","z","e"," ","s","t","y","l","e">>, <<"a","d","j","u","s","t"," ","t","o","n","e">>, <<"c","h","a","n","g","e"," ","s","t","y","l","e">> }, "_handle_style_customization", TRUE),
       Row({ <<"a","n","a","l","y","z","e"," ","s","t","y","l","e">>, <<"c","o","m","m","u","n","i","c","a","t","i","o","n"," ","a","n","a","l","y","s","i","s">> }, "_analyze_communication_style", FALSE) >>,
    Lower(text), require_style_consent, R("voice", "_provide_voice_guidance"))

\* skills/doppelganger.py, Doppelganger.route
Doppelganger_route(text) ==
  RoutePhrases("twin_agent",
    << Row({ <<"c","r","e","a","t","e"," ","p","e","r","s","o","n","a">>, <<"d","i","g","i","t","a","l"," ","t","w","i","n">>, <<"d","o","p","p","e","l","g","a","n","g","e","r">> }, "_handle_persona_creation", FALSE),
       Row({ <<"a","u","t","o","m","a","t","e">>, <<"a","u","t","o","-","r","e","p","l","y">>, <<"s","c","h","e","d","u","l","e"," ","a","s","s","i","s","t","a","n","t">> }, "_handle_automation_setup", FALSE),
       Row({ <<"d","e","l","e","g","a","t","e"," ","t","a","s","k">>, <<"h","a","n","d","l","e"," ","m","e","e","t","i","n","g">>, <<"m","a","n","a","g","e"," ","c","a","l","e","n","d","a","r">> }, "_handle_task_delegation", FALSE),
       Row({ <<"m","a","n","a","g","e"," ","p","e","r","s","o","n","a">>, <<"p","e","r","s","o","n","a"," ","s","e","t","t","i","n","g","s">>, <<"a","u","t","o","m","a","t","i","o","n"," ","r","u","l","e","s">> }, "_handle_persona_management", FALSE),
       Row({ <<"p","e","r","s","o","n","a"," ","s","t","a","t","u","s">>, <<"a","u","t","o","m","a","t","i","o","n"," ","r","e","p","o","r","t">>, <<"t","a","s","k"," ","s","u","m","m","a","r","y">> }, "_provide_status_report", FALSE),
       Row({ <<"e","t","h","i","c","s">>, <<"b","o","u","n","d","a","r","i","e","s">>, <<"l","i","m","i","t","a","t","i","o","n","s">> }, "_explain_ethical_boundaries", FALSE) >>,
    Lower(text), FALSE, R("twin_agent", "_provide_doppelganger_overview"))

\* skills/coord.py, RealWorldCoordinator.route (_handle_reminder_request takes
\* the flag and does not read it)
RealWorldCoordinator_route(text, require_confirm) ==
  RoutePhrases("coord",
    << Row({ <<"s","c","h","e","d","u","l","e"," ","m","e","e","t","i","n","g">>, <<"b","o","o","k"," ","a","p","p","o","i","n","t","m","e","n","t">>, <<"a","r","r","a","n","g","e"," ","m","e","e","t","i","n","g">> }, "_handle_scheduling_request", TRUE),
       Row({ <<"b","o","o","k"," ","r","e","s","t","a","u","r","a","n","t">>, <<"m","a","k","e"," ","r","e","s","e","r","v","a","t","i","o","n">>, <<"b","o","o","k"," ","h","o","t","e","l">>, <<"b","o","o","k"," ","f","l","i","g","h","t">> }, "_handle_booking_request", TRUE),
       Row({ <<"c","a","l","l">>, <<"p","h","o","n","e">>, <<"m","e","s","s","a","g","e">>, <<"c","o","n","t","a","c","t">> }, "_handle_communication_request", TRUE),
       Row({ <<"o","r","d","e","r">>, <<"d","e","l","i","v","e","r","y">>, <<"p","u","r","c","h","a","s","e">>, <<"b","u","y">> }, "_handle_ordering_request", TRUE),
       Row({ <<"r","e","m","i","n","d"," ","m","e">>, <<"s","e","t"," ","r","e","m","i","n","d","e","r">>, <<"f","o","l","l","o","w"," ","u","p">> }, "_handle_reminder_request", FALSE),
       Row({ <<"d","i","r","e","c","t","i","o","n","s">>, <<"l","o","c","a","t","i","o","n">>, <<"a","d","d","r","e","s","s">>, <<"m","a","p">> }, "_handle_location_request", FALSE) >>,
    Lower(text), require_confirm, R("coord", "_provide_coordination_overview"))

\* ------------------------------------------------------------------------
\* The study suite (one file per skill under skills/)
\* ------------------------------------------------------------------------

\* skills/lecture_assistant.py, LectureAssistant.route
LectureAssistant_route(text, consent) ==
  IF ~consent THEN R("lecture", "requires_consent")
  ELSE IF StartsWith(Lower(text), <<"s","u","m","m","a","r","i","z","e"," ","l","e","c","t","u","r","e",":">>)
  THEN (IF Strip(Split1(text, <<":">>)[2]) = << >>
        THEN R("lecture", "paste_transcript")
        ELSE R("lecture", "key_points"))
  ELSE R("lecture", "usage")

IsWordChar(c) == IsUpperChar(c) \/ IsLowerChar(c) \/ c \in DIGITS \/ c = "_"

\* re.match(r"translate live (\w+)->(\w+): (.*)", text, flags=re.I|re.S)
MatchTranslateLive(text) ==
  /\ StartsWith(Lower(text), <<"t","r","a","n","s","l","a","t","e"," ","l","i","v","e"," ">>)
  /\ \E i \in 17..Len(text), j \in 17..Len(text) :
       /\ i + 3 <= j /\ j + 1 <= Len(text)
       /\ \A k \in 16..(i-1) : IsWordChar(text[k])
       /\ text[i] = "-" /\ text[i+1] = ">"
       /\ \A k \in (i+2)..(j-1) : IsWordChar(text[k])
       /\ text[j] = ":" /\ text[j+1] = " "

\* skills/language_guardian.py, LanguageGuardian.route
LanguageGuardian_route(text, consent) ==
  IF ~consent THEN R("lang_guard", "requires_consent")
  ELSE IF MatchTranslateLive(text) THEN R("lang_guard", "translation")
  ELSE R("lang_guard", "usage")

\* re.search(prefix + r"(.+)", t): the prefix with at least one character after it
SearchPrefixRest(t, prefix) ==
  \E i \in 1..(Len(t) - Len(prefix)) : SubSeq(t, i, i + Len(prefix) - 1) = prefix

\* re.search(r"link (.+) to (.+)", text, flags=re.I)
MatchLinkTo(text) ==
  LET t == Lower(text) IN
  \E i \in 1..Len(t), j \in 1..Len(t) :
    /\ i + 6 <= j /\ j + 4 <= Len(t)
    /\ SubSeq(t, i, i + 4) = <<"l","i","n","k"," ">>
    /\ SubSeq(t, j, j + 3) = <<" ","t","o"," ">>

\* skills/knowledge_graph.py, KnowledgeGraph.route (the text returned; the
\* edge goes into twin.graph)
KnowledgeGraph_route(text) ==
  LET t == Lower(text) IN
  IF Contains(t, <<"l","i","n","k">>) /\ Contains(t, <<"t","o">>)
  THEN (IF MatchLinkTo(text) THEN R("kg", "linked") ELSE R("kg", "say_link"))
  ELSE IF Contains(t, <<"c","o","n","c","e","p","t"," ","m","a","p">>) THEN R("kg", "concept_map")
  ELSE R("kg", "usage")

\* skills/exam_prep.py, ExamPrep.route (which reply is built)
ExamPrep_route(text) ==
  LET t == Lower(text) IN
  IF SearchPrefixRest(t, <<"p","r","a","c","t","i","c","e"," ","t","e","s","t"," ">>) THEN R("exam", "practice_test")
  ELSE IF StartsWith(t, <<"a","n","s","w","e","r","s",":">>) THEN R("exam", "answers")
  ELSE IF Contains(t, <<"p","r","e","d","i","c","t"," ","s","c","o","r","e">>) THEN R("exam", "take_a_test_first")
  ELSE R("exam", "usage")

\* re.search(r"log progress (.+)\s+(\d+)", t)
MatchLogProgress(t) ==
  \E i \in 1..Len(t), j \in 1..Len(t) :
    /\ i + 14 <= j /\ j + 1 <= Len(t)
    /\ SubSeq(t, i, i + 12) = <<"l","o","g"," ","p","r","o","g","r","e","s","s"," ">>
    /\ t[j] = " " /\ t[j+1] \in DIGITS

\* skills/skill_builder.py, SkillBuilder.route (which reply is built)
SkillBuilder_route(text) ==
  LET t == Lower(text) IN
  IF SearchPrefixRest(t, <<"l","e","a","r","n","i","n","g"," ","p","a","t","h"," ">>) THEN R("skill", "ideas")
  ELSE IF MatchLogProgress(t) THEN R("skill", "logged")
  ELSE IF Contains(t, <<"s","k","i","l","l"," ","t","r","a","c","k","e","r">>) THEN R("skill", "tracker")
  ELSE R("skill", "usage")

\* skills/collab_study.py, CollabStudy.route: text.split("on", 1)[1] is an
\* IndexError when the text, in its own case, has no "on"
CollabStudy_route(text, td) ==
  IF Contains(Lower(text), <<"s","t","u","d","y"," ","g","r","o","u","p">>) THEN Ret(R("collab", "study_plan"), td)
  ELSE IF StartsWith(Lower(text), <<"d","r","a","f","t"," ","s","t","u","d","y"," ","a","g","e","n","d","a"," ","o","n">>)
  THEN (IF Len(Split1(text, <<"o","n">>)) < 2 THEN Raise(td)
        ELSE Ret(RA("collab", "agenda", Strip(Split1(text, <<"o","n">>)[2])), td))
  ELSE Ret(R("collab", "usage"), td)

\* skills/deep_research.py, DeepResearch.route
DeepResearch_route(text) ==
  IF StartsWith(Lower(text), <<"d","e","e","p"," ","r","e","s","e","a","r","c","h",":">>)
  THEN (IF Strip(Split1(text, <<":">>)[2]) = << >>
        THEN R("research", "give_a_topic")
        ELSE R("research", "summary"))
  ELSE IF Contains(Lower(text), <<"s","u","m","m","a","r","i","z","e"," ","p","a","p","e","r","s">>) THEN R("research", "paste_abstracts")
  ELSE R("research", "usage")

\* re.match(r"add event (.+) at (\d{1,2}:\d{2}) for (\d+)", t) with the title
\* ending at position p-1 and an hour of hlen digits
AddEventAt(t, p, hlen) ==
  LET q == p + 4 IN
  /\ p >= 12
  /\ q + hlen + 8 <= Len(t)
  /\ SubSeq(t, 1, 10) = <<"a","d","d"," ","e","v","e","n","t"," ">>
  /\ SubSeq(t, p, p + 3) = <<" ","a","t"," ">>
  /\ IsDigits(SubSeq(t, q, q + hlen - 1))
  /\ t[q + hlen] = ":"
  /\ IsDigits(SubSeq(t, q + hlen + 1, q + hlen + 2))
  /\ SubSeq(t, q + hlen + 3, q + hlen + 7) = <<" ","f","o","r"," ">>
  /\ t[q + hlen + 8] \in DIGITS

\* the groups of the match: (.+) is greedy, so the title ends at the last
\* " at " the rest of the pattern can follow
AddEventMatch(t) ==
  LET ps == { pr \in (1..Len(t)) \X {1, 2} : AddEventAt(t, pr[1], pr[2]) } IN
  IF ps = { } THEN [ok |-> FALSE]
  ELSE LET pr == CHOOSE x \in ps : \A y \in ps : y[1] <= x[1]
           q  == pr[1] + 4
           d  == q + pr[2] + 8
           e  == CHOOSE k \in d..Len(t) :
                   /\ \A i \in d..k : t[i] \in DIGITS
                   /\ (k = Len(t) \/ t[k+1] \notin DIGITS)
       IN [ ok |-> TRUE,
            title |-> SubSeq(t, 11, pr[1] - 1),
            h |-> ToInt(SubSeq(t, q, q + pr[2] - 1)),
            m |-> ToInt(SubSeq(t, q + pr[2] + 1, q + pr[2] + 2)),
            mins |-> ToInt(SubSeq(t, d, e)) ]

\* skills/life_autopilot.py, LifeAutopilot.route: _today_time raises ValueError
\* from datetime.replace for an hour above 23 or a minute above 59;
\* require_confirm is not read
LifeAutopilot_route(text, require_confirm, td) ==
  LET t == Lower(text)
      g == AddEventMatch(t)
  IN IF StartsWith(t, <<"a","d","d"," ","e","v","e","n","t">>)
     THEN (IF ~g.ok THEN Ret(R("autopilot", "use_add_event"), td)
           ELSE IF g.h > 23 \/ g.m > 59 THEN Raise(td)
           ELSE Ret(RA("autopilot", "added", g.title),
                    Append(td, [title |-> g.title, start |-> 60 * g.h + g.m, mins |-> g.mins])))
     ELSE IF Contains(t, <<"s","c","h","e","d","u","l","e"," ","m","y"," ","d","a","y">>) \/ Contains(t, <<"a","u","t","o","p","i","l","o","t">>)
     THEN Ret([R("autopilot", "plan") EXCEPT !.n = Len(td)], td)
     ELSE Ret(R("autopilot", "usage"), td)

\* ------------------------------------------------------------------------
\* core/database.py and the twin's use of it
\* ------------------------------------------------------------------------

\* the methods class DatabaseManager defines; calling any other is an
\* AttributeError
DatabaseManagerMethods == { "__init__", "_init_database", "get_connection" }

\* skills/digital_twin.py, DigitalTwin.remember_chat: the table after the call
\* (an exception from the database call is caught and logged)
remember_chat(conv, role, content) ==
  IF "add_conversation" \in DatabaseManagerMethods
  THEN Append(conv, [role |-> role, content |-> content, session_id |-> "default"])
  ELSE conv

\* skills/digital_twin.py, DigitalTwin.get_recent_context: [] on an exception
get_recent_context(conv) ==
  IF "get_conversation_history" \in DatabaseManagerMethods THEN conv ELSE << >>

\* ------------------------------------------------------------------------
\* skills/predictive_control.py
\* ------------------------------------------------------------------------

\* _analyze_input: intent, entities and context type of the input
analyze_input(input_text) ==
  LET s == Lower(input_text) IN
  [ intent |->
      IF ContainsAny(s, { <<"o","p","e","n">>, <<"l","a","u","n","c","h">>, <<"s","t","a","r","t">> }) THEN "launch_application"
      ELSE IF ContainsAny(s, { <<"c","r","e","a","t","e">>, <<"m","a","k","e">>, <<"g","e","n","e","r","a","t","e">> }) THEN "create_content"
      ELSE IF ContainsAny(s, { <<"f","i","n","d">>, <<"s","e","a","r","c","h">>, <<"l","o","o","k">> }) THEN "search_information"
      ELSE IF ContainsAny(s, { <<"h","e","l","p">>, <<"h","o","w">>, <<"w","h","a","t">>, <<"e","x","p","l","a","i","n">> }) THEN "get_help"
      ELSE IF ContainsAny(s, { <<"s","t","u","d","y">>, <<"l","e","a","r","n">>, <<"p","r","a","c","t","i","c","e">> }) THEN "educational"
      ELSE "unknown",
    entities |->
      (IF Contains(s, <<"y","o","u","t","u","b","e">>) THEN { "youtube" } ELSE { })
      \cup (IF Contains(s, <<"g","o","o","g","l","e">>) THEN { "google" } ELSE { })
      \cup (IF ContainsAny(s, { <<"c","a","l","c","u","l","a","t","o","r">>, <<"m","a","t","h">>, <<"c","a","l","c","u","l","a","t","e">> }) THEN { "calculator" } ELSE { })
      \cup (IF ContainsAny(s, { <<"n","o","t","e">>, <<"t","e","x","t">>, <<"w","r","i","t","e">> }) THEN { "text_editor" } ELSE { }),
    context_type |->
      IF ContainsAny(s, { <<"w","o","r","k">>, <<"j","o","b">>, <<"m","e","e","t","i","n","g">>, <<"e","m","a","i","l">> }) THEN "work"
      ELSE IF ContainsAny(s, { <<"s","t","u","d","y">>, <<"h","o","m","e","w","o","r","k">>, <<"r","e","s","e","a","r","c","h">>, <<"l","e","a","r","n">> }) THEN "study"
      ELSE IF ContainsAny(s, { <<"g","a","m","e">>, <<"p","l","a","y">>, <<"f","u","n">>, <<"e","n","t","e","r","t","a","i","n","m","e","n","t">> }) THEN "entertainment"
      ELSE "general" ]

Pred(type, confidence, reasoning) ==
  [type |-> type, confidence |-> confidence, reasoning |-> reasoning]

\* _generate_predictions with the patterns and the context the twin can give:
\* analyze_patterns and get_recent_context both fail on their database call, so
\* there are no top_requests, most_active_hour is the default 12 and the
\* context is empty. Confidences are in hundredths.
generate_predictions(a, context, hour) ==
  (IF a.intent = "launch_application"
   THEN (IF "youtube" \in a.entities THEN << Pred("workflow_youtube", 70, "common_workflow") >> ELSE << >>)
        \o (IF "calculator" \in a.entities THEN << Pred("workflow_calculator", 60, "complementary_tools") >> ELSE << >>)
        \o (IF "text_editor" \in a.entities THEN << Pred("workflow_text_editor", 50, "complementary_tools") >> ELSE << >>)
   ELSE IF a.intent = "create_content"
   THEN (IF a.context_type = "study" THEN << Pred("content_study", 80, "educational_best_practice") >> ELSE << >>)
        \o (IF a.context_type = "work" THEN << Pred("content_work", 70, "professional_workflow") >> ELSE << >>)
   ELSE IF a.intent = "educational" /\ context = << >>
   THEN << Pred("study_enhancement", 60, "learning_technique") >>
   ELSE << >>)
  \o (IF 6 <= hour /\ hour <= 12 THEN << Pred("time_morning", 50, "morning_routine") >>
      ELSE IF 12 <= hour /\ hour <= 18
      THEN (IF hour = 12 THEN << Pred("time_peak", 70, "peak_activity_time") >> ELSE << >>)
      ELSE IF 18 <= hour /\ hour <= 22 THEN << Pred("time_evening", 50, "evening_routine") >>
      ELSE << >>)

\* the score _select_best_prediction sorts by
PredScore(p) ==
  p.confidence
  + (IF p.reasoning \in { "frequent_usage", "peak_activity_time" } THEN 10
     ELSE IF p.reasoning \in { "educational_best_practice", "study_continuity" } THEN 5
     ELSE 0)

prediction_confidence_threshold == 60

\* PredictiveController.suggest: the suggestion, or None
PredictiveController_suggest(current_input, context, hour) ==
  LET ps == generate_predictions(analyze_input(current_input), context, hour) IN
  IF ps = << >> THEN None
  ELSE LET b == CHOOSE i \in 1..Len(ps) :
                  /\ \A j \in 1..Len(ps) : PredScore(ps[j]) <= PredScore(ps[i])
                  /\ \A j \in 1..(i-1) : PredScore(ps[j]) < PredScore(ps[i])
       IN IF ps[b].confidence > prediction_confidence_threshold
          THEN R("predictor", ps[b].type)
          ELSE None

\* ------------------------------------------------------------------------
\* core/knowledge.py: get_answer
\* ------------------------------------------------------------------------

\* what the provider call does
LlmOutcomes == { "answer", "empty", "error" }

\* what StudyCompanion._extract_topic_from_text does: _handle_flashcard_request
\* calls it, and skills/study_companion.py, which ends inside
\* _handle_study_planning, does not define it
TopicOutcomes == { "topic", "raises" }

\* the behaviours of the operating system, of the provider and of the topic
\* extraction explored together: one of them misbehaves at a time
Worlds ==
  { w \in OsOutcomes \X LlmOutcomes \X TopicOutcomes :
      Cardinality({ i \in 1..3 : w[i] \notin { "ok", "answer", "topic" } }) <= 1 }

\* the keyword arguments of the provider call: _get_anthropic_response's
\* messages.create and _get_openai_response's chat.completions.create
provider_call_kwargs(provider) ==
  IF provider = "openai"
  THEN { "model", "messages", "max_tokens", "temperature", "timeout" }
  ELSE { "model", "max_tokens", "temperature", "messages" }

\* get_answer(query): every provider exception is caught inside and turned
\* into a text that carries str(e), so the call itself never raises. backend
\* tells what became of the provider call.
get_answer(query, provider, llm) ==
  [ raised |-> FALSE,
    val |-> IF Strip(query) = << >> THEN R("llm", "provide_a_question")
            ELSE IF provider = "none" THEN R("llm", "no_ai_backend")
            ELSE IF llm = "error" THEN RA("llm", "error_processing_request", << provider >>)
            ELSE IF llm = "empty" THEN EmptyStr
            ELSE RA("llm", "answer", << provider >>),
    backend |-> IF Strip(query) = << >> THEN "unused"
                ELSE IF provider = "none" THEN "unavailable"
                ELSE llm ]

\* ------------------------------------------------------------------------
\* core/knowledge.py: generate_flashcards; skills/study_companion.py
\* ------------------------------------------------------------------------

\* generate_flashcards(topic): the prompt goes to get_answer; an answer to it
\* is a JSON array and gives the question/answer pairs; any other text
\* (get_answer's own messages, an empty reply) fails json.loads and gives one
\* card whose answer is that text
generate_flashcards(env) ==
  IF get_answer(<<"C","r","e","a","t","e"," ","1","0"," ","e","d","u","c","a","t","i","o","n","a","l"," ","f","l","a","s","h","c","a","r","d","s"," ","a","b","o","u","t">>, env.provider, env.llm).val.kind
       = "answer"
  THEN "generated_pairs"
  ELSE "fallback_card"

\* StudyCompanion._create_flashcards: the list is never empty, so the cards
\* are stored in flashcard_sets and the first three are listed
create_flashcards(env) ==
  RA("study", "_create_flashcards", << generate_flashcards(env) >>)

\* StudyCompanion._handle_flashcard_request
handle_flashcard_request(text, env) ==
  IF env.topic = "raises" THEN R("study", "flashcard_error")
  ELSE IF Contains(Lower(text), <<"c","r","e","a","t","e">>) \/ Contains(Lower(text), <<"m","a","k","e">>)
  THEN create_flashcards(env)
  ELSE IF Contains(Lower(text), <<"r","e","v","i","e","w">>) \/ Contains(Lower(text), <<"p","r","a","c","t","i","c","e">>)
  THEN R("study", "_review_flashcards")
  ELSE R("study", "_provide_flashcard_overview")

\* skills/study_companion.py, StudyCompanion.route
StudyCompanion_route(text, env) ==
  IF ContainsAny(Lower(text), { <<"f","l","a","s","h","c","a","r","d">>, <<"f","l","a","s","h"," ","c","a","r","d">>, <<"m","e","m","o","r","y"," ","c","a","r","d">> })
  THEN handle_flashcard_request(text, env)
  ELSE RoutePhrases("study",
    << Row({ <<"s","t","u","d","y"," ","p","l","a","n">>, <<"s","t","u","d","y"," ","s","c","h","e","d","u","l","e">>, <<"l","e","a","r","n","i","n","g"," ","p","l","a","n">> }, "_handle_study_planning", FALSE),
       Row({ <<"s","t","u","d","y"," ","t","e","c","h","n","i","q","u","e">>, <<"l","e","a","r","n","i","n","g"," ","m","e","t","h","o","d">>, <<"h","o","w"," ","t","o"," ","s","t","u","d","y">> }, "_provide_study_techniques", FALSE),
       Row({ <<"s","t","u","d","y"," ","p","r","o","g","r","e","s","s">>, <<"l","e","a","r","n","i","n","g"," ","a","n","a","l","y","t","i","c","s">>, <<"s","t","u","d","y"," ","s","t","a","t","s">> }, "_provide_progress_tracking", FALSE),
       Row({ <<"q","u","i","z">>, <<"p","r","a","c","t","i","c","e"," ","t","e","s","t">>, <<"t","e","s","t"," ","m","e">> }, "_handle_practice_testing", FALSE),
       Row({ <<"n","o","t","e"," ","t","a","k","i","n","g">>, <<"o","r","g","a","n","i","z","e"," ","n","o","t","e","s">>, <<"s","t","u","d","y"," ","n","o","t","e","s">> }, "_provide_note_taking_guidance", FALSE),
       Row({ <<"m","a","t","h">>, <<"s","c","i","e","n","c","e">>, <<"h","i","s","t","o","r","y">>, <<"l","a","n","g","u","a","g","e">> }, "_provide_subject_specific_help", FALSE) >>,
    Lower(text), FALSE, R("study", "_provide_study_overview"))

\* ------------------------------------------------------------------------
\* assistant.py: the router
\* ------------------------------------------------------------------------

IsBlank_NoStrip(text) == text = << >>

\* `not text or not text.strip()`
IsBlank(text) == text = << >> \/ Strip(text) = << >>

IsSystemCommand_WholeText(t) == t \in { <<"s","t","a","t","u","s">>, <<"h","e","a","l","t","h">>, <<"d","i","a","g","n","o","s","t","i","c">> }

\* any(keyword in t for keyword in ["status", "health", "diagnostic"])
IsSystemCommand(t) == ContainsAny(t, { <<"s","t","a","t","u","s">>, <<"h","e","a","l","t","h">>, <<"d","i","a","g","n","o","s","t","i","c">> })

\* _get_system_status: n is the number of skills that are not None, e the
\* number of initialization errors
get_system_status(self) ==
  [ R("system", "status_report") EXCEPT
      !.n = Cardinality({ a \in Skills : self.skill[a] }),
      !.e = Len(self.errors) ]

Candidate(attr, keywords, guarded) ==
  [attr |-> attr, keywords |-> keywords, guarded |-> guarded]

RouteTable_CrossFirst ==
  << Candidate("cross", { <<"d","e","v","i","c","e">>, <<"p","h","o","n","e">>, <<"t","a","b","l","e","t">> }, TRUE),
     Candidate("pc", { <<"o","p","e","n">>, <<"c","l","o","s","e">>, <<"l","a","u","n","c","h">>, <<"s","t","a","r","t">>, <<"s","t","o","p">> }, TRUE),
     Candidate("predictor", { <<"p","r","e","d","i","c","t">>, <<"s","u","g","g","e","s","t">>, <<"r","e","c","o","m","m","e","n","d">> }, TRUE),
     Candidate("dark", { <<"b","r","e","a","c","h">>, <<"p","w","n","e","d">>, <<"l","e","a","k">>, <<"c","o","m","p","r","o","m","i","s","e","d">>, <<"d","a","r","k"," ","w","e","b">> }, FALSE),
     Candidate("threat", { <<"t","h","r","e","a","t">>, <<"s","c","a","n"," ","t","h","r","e","a","t","s">>, <<"p","h","i","s","h","i","n","g">>, <<"s","u","s","p","i","c","i","o","u","s">> }, FALSE),
     Candidate("negotiator", { <<"n","e","g","o","t","i","a","t","e">>, <<"l","o","w","e","r"," ","p","r","i","c","e">>, <<"d","e","a","l">>, <<"d","i","s","c","o","u","n","t">> }, FALSE),
     Candidate("ar", { <<"a","r"," ","o","v","e","r","l","a","y">>, <<"r","e","c","o","g","n","i","z","e">>, <<"w","h","a","t"," ","i","s"," ","t","h","i","s"," ","o","b","j","e","c","t">> }, FALSE),
     Candidate("voice", { <<"v","o","i","c","e">>, <<"s","p","e","a","k"," ","l","i","k","e">>, <<"t","o","n","e">>, <<"s","t","y","l","e"," ","v","o","i","c","e">> }, FALSE),
     Candidate("twin_agent", { <<"d","i","g","i","t","a","l"," ","t","w","i","n">>, <<"d","o","p","p","e","l","g","a","n","g","e","r">>, <<"a","u","t","o","-","r","e","p","l","y">>, <<"a","t","t","e","n","d"," ","m","e","e","t","i","n","g">> }, FALSE),
     Candidate("coord", { <<"c","a","l","l">>, <<"b","o","o","k">>, <<"o","r","d","e","r">>, <<"m","e","s","s","a","g","e">>, <<"r","e","m","i","n","d">> }, FALSE) >>

\* steps (1) to (4) of _route_command, in order: the attribute, its trigger
\* keywords, and whether the result is returned only `if ans:` (guarded) or
\* returned as it is
RouteTable ==
  << Candidate("pc", { <<"o","p","e","n">>, <<"c","l","o","s","e">>, <<"l","a","u","n","c","h">>, <<"s","t","a","r","t">>, <<"s","t","o","p">> }, TRUE),
     Candidate("cross", { <<"d","e","v","i","c","e">>, <<"p","h","o","n","e">>, <<"t","a","b","l","e","t">> }, TRUE),
     Candidate("predictor", { <<"p","r","e","d","i","c","t">>, <<"s","u","g","g","e","s","t">>, <<"r","e","c","o","m","m","e","n","d">> }, TRUE),
     Candidate("dark", { <<"b","r","e","a","c","h">>, <<"p","w","n","e","d">>, <<"l","e","a","k">>, <<"c","o","m","p","r","o","m","i","s","e","d">>, <<"d","a","r","k"," ","w","e","b">> }, FALSE),
     Candidate("threat", { <<"t","h","r","e","a","t">>, <<"s","c","a","n"," ","t","h","r","e","a","t","s">>, <<"p","h","i","s","h","i","n","g">>, <<"s","u","s","p","i","c","i","o","u","s">> }, FALSE),
     Candidate("negotiator", { <<"n","e","g","o","t","i","a","t","e">>, <<"l","o","w","e","r"," ","p","r","i","c","e">>, <<"d","e","a","l">>, <<"d","i","s","c","o","u","n","t">> }, FALSE),
     Candidate("ar", { <<"a","r"," ","o","v","e","r","l","a","y">>, <<"r","e","c","o","g","n","i","z","e">>, <<"w","h","a","t"," ","i","s"," ","t","h","i","s"," ","o","b","j","e","c","t">> }, FALSE),
     Candidate("voice", { <<"v","o","i","c","e">>, <<"s","p","e","a","k"," ","l","i","k","e">>, <<"t","o","n","e">>, <<"s","t","y","l","e"," ","v","o","i","c","e">> }, FALSE),
     Candidate("twin_agent", { <<"d","i","g","i","t","a","l"," ","t","w","i","n">>, <<"d","o","p","p","e","l","g","a","n","g","e","r">>, <<"a","u","t","o","-","r","e","p","l","y">>, <<"a","t","t","e","n","d"," ","m","e","e","t","i","n","g">> }, FALSE),
     Candidate("coord", { <<"c","a","l","l">>, <<"b","o","o","k">>, <<"o","r","d","e","r">>, <<"m","e","s","s","a","g","e">>, <<"r","e","m","i","n","d">> }, FALSE) >>

\* the if-chain of _route_study_commands, in order
StudyTable ==
  << Candidate("study", { <<"f","l","a","s","h","c","a","r","d">>, <<"s","t","u","d","y"," ","c","a","r","d">>, <<"q","u","i","z">> }, FALSE),
     Candidate("lecture", { <<"s","u","m","m","a","r","i","z","e"," ","l","e","c","t","u","r","e">>, <<"t","r","a","n","s","c","r","i","b","e"," ","l","e","c","t","u","r","e">>, <<"c","l","a","s","s"," ","n","o","t","e","s">> }, FALSE),
     Candidate("kg", { <<"c","o","n","c","e","p","t"," ","m","a","p">>, <<"k","n","o","w","l","e","d","g","e"," ","g","r","a","p","h">>, <<"m","i","n","d"," ","m","a","p">> }, FALSE),
     Candidate("exam", { <<"p","r","a","c","t","i","c","e"," ","t","e","s","t">>, <<"p","r","e","d","i","c","t"," ","s","c","o","r","e">>, <<"e","x","a","m"," ","p","r","e","p">> }, FALSE),
     Candidate("skill", { <<"l","e","a","r","n","i","n","g"," ","p","a","t","h">>, <<"s","k","i","l","l"," ","t","r","a","c","k","e","r">>, <<"p","r","o","g","r","e","s","s">> }, FALSE),
     Candidate("collab", { <<"s","t","u","d","y"," ","g","r","o","u","p">>, <<"c","o","l","l","a","b","o","r","a","t","e">>, <<"g","r","o","u","p"," ","s","t","u","d","y">> }, FALSE),
     Candidate("lang_guard", { <<"t","r","a","n","s","l","a","t","e"," ","l","i","v","e">>, <<"l","a","n","g","u","a","g","e"," ","g","u","a","r","d","i","a","n">>, <<"w","h","i","s","p","e","r"," ","t","r","a","n","s","l","a","t","e">> }, FALSE),
     Candidate("research", { <<"d","e","e","p"," ","r","e","s","e","a","r","c","h">>, <<"s","u","m","m","a","r","i","z","e"," ","p","a","p","e","r","s">>, <<"c","r","o","s","s","-","c","h","e","c","k"," ","s","o","u","r","c","e","s">> }, FALSE),
     Candidate("autopilot", { <<"a","u","t","o","p","i","l","o","t">>, <<"s","c","h","e","d","u","l","e"," ","m","y"," ","d","a","y">>, <<"r","o","u","t","i","n","e">>, <<"a","u","t","o","m","a","t","e">> }, FALSE) >>

\* `self.<attr> and any(keyword in t for keyword in [...])`
Triggered(c, self, t) == self.skill[c.attr] /\ ContainsAny(t, c.keywords)

\* the handler call the router makes for the attribute a, with the arguments
\* it passes
CallSkill(a, text, env, conv, td) ==
  CASE a = "pc" -> Ret(PCControl_route(text, env.os), td)
    [] a = "cross" -> Ret(CrossDevice_route(text, REQUIRE_CONFIRMATION_FOR_DEVICE_ACTIONS), td)
    [] a = "predictor" ->
         Ret(PredictiveController_suggest(text, get_recent_context(conv), HourOf(env.ts)), td)
    [] a = "dark" -> Ret(DarkWebWatch_route(text), td)
    [] a = "threat" -> Ret(ThreatMode_route(text), td)
    [] a = "negotiator" -> Ret(Negotiator_route(text, REQUIRE_CONFIRMATION_FOR_PAYMENTS), td)
    [] a = "ar" -> Ret(AROverlay_route(text, REQUIRE_EXPLICIT_CONSENT_FOR_RECORDING), td)
    [] a = "voice" -> Ret(VoiceClone_route(text, REQUIRE_EXPLICIT_CONSENT_FOR_STYLE_ADAPT), td)
    [] a = "twin_agent" -> Ret(Doppelganger_route(text), td)
    [] a = "coord" -> Ret(RealWorldCoordinator_route(text, REQUIRE_CONFIRMATION_FOR_PAYMENTS), td)
    [] a = "study" -> Ret(StudyCompanion_route(text, env), td)
    [] a = "lecture" -> Ret(LectureAssistant_route(text, REQUIRE_EXPLICIT_CONSENT_FOR_RECORDING), td)
    [] a = "kg" -> Ret(KnowledgeGraph_route(text), td)
    [] a = "exam" -> Ret(ExamPrep_route(text), td)
    [] a = "skill" -> Ret(SkillBuilder_route(text), td)
    [] a = "collab" -> CollabStudy_route(text, td)
    [] a = "lang_guard" -> Ret(LanguageGuardian_route(text, REQUIRE_EXPLICIT_CONSENT_FOR_RECORDING), td)
    [] a = "research" -> Ret(DeepResearch_route(text), td)
    [] a = "autopilot" -> LifeAutopilot_route(text, REQUIRE_CONFIRMATION_FOR_DEVICE_ACTIONS, td)

\* what a routing step hands back: whether a value is returned to the
\* caller, the value, who produced it, and the effects so far
Routed(returned, val, by, acc) ==
  [ returned |-> returned, val |-> val, by |-> by, todos |-> acc.todos,
    invoked |-> acc.invoked, raisedIn |-> acc.raisedIn, conv |-> acc.conv,
    given |-> acc.given ]

After_HandlerLogsTurn(a, text, r, acc) ==
  [ todos |-> r.todos, invoked |-> Append(acc.invoked, a),
    given |-> Append(acc.given, text),
    raisedIn |-> IF r.raised THEN acc.raisedIn \cup {a} ELSE acc.raisedIn,
    conv |-> Append(acc.conv,
                    [role |-> "assistant", content |-> r.val, session_id |-> "default"]) ]

\* the effects once the handler of attribute a, called with text, has given
\* r: the handler may
\* have changed twin.todos; no handler calls remember_chat or touches the
\* conversations table
After(a, text, r, acc) ==
  [ todos |-> r.todos, invoked |-> Append(acc.invoked, a),
    given |-> Append(acc.given, text),
    raisedIn |-> IF r.raised THEN acc.raisedIn \cup {a} ELSE acc.raisedIn,
    conv |-> acc.conv ]

\* what _route_command keeps of the study suite when the handler of
\* attribute a gave r: a raise gives None, and None or "" is not returned
StudyStep(a, text, r, acc) ==
  Routed(~r.raised /\ Truthy(r.val), IF r.raised THEN None ELSE r.val, a,
         After(a, text, r, acc))

\* _route_study_commands from row i on, then `if study_response: return
\* study_response`: one try block around the whole chain, so the first
\* triggered skill either returns its result or, by raising, ends the chain
\* with None
RECURSIVE route_study_commands(_, _, _, _, _, _, _)
route_study_commands(i, text, t, self, env, conv, acc) ==
  IF i > Len(StudyTable) THEN Routed(FALSE, None, "nobody", acc)
  ELSE IF ~Triggered(StudyTable[i], self, t)
  THEN route_study_commands(i + 1, text, t, self, env, conv, acc)
  ELSE StudyStep(StudyTable[i].attr, text,
                 CallSkill(StudyTable[i].attr, text, env, conv, acc.todos), acc)

\* steps (1) to (5) of _route_command from candidate i on: a triggered
\* candidate is called inside its own try block; its result r is returned, or
\* the router goes on when the call raised or a guarded result is empty
RECURSIVE RouteFrom(_, _, _, _, _, _, _)
RouteStep(i, r, text, t, self, env, conv, acc) ==
  IF r.raised \/ (RouteTable[i].guarded /\ ~Truthy(r.val))
  THEN RouteFrom(i + 1, text, t, self, env, conv, After(RouteTable[i].attr, text, r, acc))
  ELSE Routed(TRUE, r.val, RouteTable[i].attr, After(RouteTable[i].attr, text, r, acc))

RouteFrom(i, text, t, self, env, conv, acc) ==
  IF i > Len(RouteTable) THEN route_study_commands(1, text, t, self, env, conv, acc)
  ELSE IF ~Triggered(RouteTable[i], self, t)
  THEN RouteFrom(i + 1, text, t, self, env, conv, acc)
  ELSE RouteStep(i, CallSkill(RouteTable[i].attr, text, env, conv, acc.todos),
                 text, t, self, env, conv, acc)

\* a routing result with nothing done
NoEffect(ctx, td, conv) ==
  [ val |-> None, by |-> "nobody", ctx |-> ctx, todos |-> td, conv |-> conv,
    invoked |-> << >>, given |-> << >>, raisedIn |-> { }, tip |-> FALSE,
    llm |-> FALSE, query |-> << >>, backend |-> "unused" ]

route_rest_SkillsFirst(text, td, conv, hc, r, g) ==
  IF r.returned
  THEN [NoEffect(hc.ctx, r.todos, r.conv) EXCEPT
          !.val = r.val, !.by = r.by,
          !.invoked = r.invoked, !.given = r.given, !.raisedIn = r.raisedIn]
  ELSE IF Truthy(hc.tip)
  THEN [NoEffect(hc.ctx, r.todos, r.conv) EXCEPT
          !.val = hc.tip, !.by = "context", !.tip = TRUE,
          !.invoked = r.invoked, !.given = r.given, !.raisedIn = r.raisedIn]
  ELSE [NoEffect(hc.ctx, r.todos, r.conv) EXCEPT
          !.invoked = r.invoked, !.given = r.given, !.raisedIn = r.raisedIn,
          !.llm = TRUE, !.query = text, !.backend = g.backend,
          !.val = IF g.raised THEN R("router", "knowledge_base_unavailable")
                  ELSE IF Truthy(g.val) THEN g.val
                  ELSE R("router", "not_sure"),
          !.by = IF ~g.raised /\ Truthy(g.val) THEN "llm" ELSE "router"]

\* _route_command after the system check: hc is what the hyper-context step
\* gave, r what steps (1) to (5) give, g what get_answer gives
route_rest(text, td, conv, hc, r, g) ==
  IF Truthy(hc.tip)
  THEN [NoEffect(hc.ctx, td, conv) EXCEPT !.val = hc.tip, !.by = "context", !.tip = TRUE]
  ELSE IF r.returned
  THEN [NoEffect(hc.ctx, r.todos, r.conv) EXCEPT
          !.val = r.val, !.by = r.by,
          !.invoked = r.invoked, !.given = r.given, !.raisedIn = r.raisedIn]
  ELSE [NoEffect(hc.ctx, r.todos, r.conv) EXCEPT
          !.invoked = r.invoked, !.given = r.given, !.raisedIn = r.raisedIn,
          !.llm = TRUE, !.query = text, !.backend = g.backend,
          !.val = IF g.raised THEN R("router", "knowledge_base_unavailable")
                  ELSE IF Truthy(g.val) THEN g.val
                  ELSE R("router", "not_sure"),
          !.by = IF ~g.raised /\ Truthy(g.val) THEN "llm" ELSE "router"]

\* _route_command: the response, who produced it, and the effects
route_command(text, self, env, conv, ctx, td) ==
  IF IsSystemCommand(Lower(text))
  THEN [NoEffect(ctx, td, conv) EXCEPT !.val = get_system_status(self), !.by = "system"]
  ELSE route_rest(text, td, conv,
         IF self.skill["context"] THEN react_to_text(ctx, text, env.ts)
         ELSE [tip |-> None, ctx |-> ctx],
         RouteFrom(1, text, Lower(text), self, env, conv,
                   [todos |-> td, invoked |-> << >>, given |-> << >>, raisedIn |-> { },
                    conv |-> conv]),
         get_answer(text, self.provider, env.llm))

Responded_WriteFailureSurfaces(self, r) ==
  [ response |-> IF self.twin /\ remember_chat(r.conv, "assistant", r.val) = r.conv
                 THEN R("router", "error_processing_request")
                 ELSE r.val,
    raised |-> FALSE, by |-> r.by,
    conv |-> r.conv,
    ctx |-> r.ctx, todos |-> r.todos, invoked |-> r.invoked, given |-> r.given,
    logged |-> << >>,
    raisedIn |-> r.raisedIn, tip |-> r.tip, llm |-> r.llm, query |-> r.query,
    backend |-> r.backend ]

\* handle_command once _route_command has given r: the response is logged as
\* the assistant turn (remember_chat catches what the database call raises)
\* and returned
Responded(self, r) ==
  [ response |-> r.val, raised |-> FALSE, by |-> r.by,
    conv |-> IF self.twin THEN remember_chat(r.conv, "assistant", r.val) ELSE r.conv,
    ctx |-> r.ctx, todos |-> r.todos, invoked |-> r.invoked, given |-> r.given,
    logged |-> << >>,
    raisedIn |-> r.raisedIn, tip |-> r.tip, llm |-> r.llm, query |-> r.query,
    backend |-> r.backend ]

\* what can happen in handle_command's try block outside the try blocks of
\* _route_command: nothing, or an exception raised while _get_system_status
\* builds its report (a MemoryError)
InternalOutcomes == { "ok", "raises" }

\* handle_command's except branch: the error text is returned; no
\* remember_chat call is made for it
handle_command_except(conv, ctx, td) ==
  [ response |-> R("router", "error_processing_request"), raised |-> FALSE,
    by |-> "router", conv |-> conv, ctx |-> ctx, todos |-> td, invoked |-> << >>,
    given |-> << >>, logged |-> << >>, raisedIn |-> { "router" }, tip |-> FALSE, llm |-> FALSE, query |-> << >>,
    backend |-> "unused" ]

\* handle_command from line 279 on, text being the stripped input: the user
\* turn, routing, the assistant turn. logged is the content handed to
\* remember_chat as the user turn. remember_chat and every skill block of
\* the routing catch their own exceptions; an exception raised outside them
\* reaches the except branch.
handle_stripped(text, self, env, conv, ctx, td) ==
  [ (IF env.internal = "raises" /\ IsSystemCommand(Lower(text))
     THEN handle_command_except(
            IF self.twin THEN remember_chat(conv, "user", text) ELSE conv, ctx, td)
     ELSE Responded(self,
            route_command(text, self, env,
                          IF self.twin THEN remember_chat(conv, "user", text) ELSE conv,
                          ctx, td)))
    EXCEPT !.logged = IF self.twin THEN << text >> ELSE << >> ]

handle_command_Lowercases(text, self, env, conv, ctx, td) ==
  IF IsBlank(text)
  THEN [ response |-> R("router", "provide_a_command"), raised |-> FALSE, by |-> "router",
         conv |-> conv, ctx |-> ctx, todos |-> td, invoked |-> << >>,
         given |-> << >>, logged |-> << >>,
         raisedIn |-> { }, tip |-> FALSE, llm |-> FALSE, query |-> << >>,
         backend |-> "unused" ]
  ELSE handle_stripped(Lower(Strip(text)), self, env, conv, ctx, td)

\* handle_command: the blank check, then text = text.strip() and the rest
handle_command(text, self, env, conv, ctx, td) ==
  IF IsBlank(text)
  THEN [ response |-> R("router", "provide_a_command"), raised |-> FALSE, by |-> "router",
         conv |-> conv, ctx |-> ctx, todos |-> td, invoked |-> << >>,
         given |-> << >>, logged |-> << >>,
         raisedIn |-> { }, tip |-> FALSE, llm |-> FALSE, query |-> << >>,
         backend |-> "unused" ]
  ELSE handle_stripped(Strip(text), self, env, conv, ctx, td)

\* ------------------------------------------------------------------------
\* The inputs explored and the specification
\* ------------------------------------------------------------------------

TextPool ==
  { << >>,
    <<" "," "," ">>,
    <<"o","p","e","n"," ","y","o","u","t","u","b","e">>,
    <<"d","e","v","i","c","e"," ","s","t","a","t","u","s">>,
    <<"m","y"," ","d","e","v","i","c","e","s"," ","o","p","e","n">>,
    <<"o","p","e","n"," ","m","y"," ","d","e","v","i","c","e","s">>,
    <<"r","e","c","o","g","n","i","z","e"," ","f","a","c","e","s">>,
    <<"c","l","a","s","s"," ","n","o","t","e","s">>,
    <<"a","d","d"," ","e","v","e","n","t"," ","r","o","u","t","i","n","e"," ","a","t"," ","1","0",":","0","0"," ","f","o","r"," ","3","0">>,
    <<"a","d","d"," ","e","v","e","n","t"," ","r","o","u","t","i","n","e"," ","a","t"," ","2","5",":","0","0"," ","f","o","r"," ","3","0">>,
    <<"D","R","A","F","T"," ","S","T","U","D","Y"," ","A","G","E","N","D","A"," ","O","N"," ","G","R","O","U","P"," ","S","T","U","D","Y"," ","R","O","U","T","I","N","E">>,
    <<"f","l","a","s","h","c","a","r","d","s"," ","o","n"," ","m","a","c","h","i","n","e"," ","l","e","a","r","n","i","n","g">>,
    <<"c","r","e","a","t","e"," ","f","l","a","s","h","c","a","r","d","s"," ","o","n"," ","m","a","c","h","i","n","e"," ","l","e","a","r","n","i","n","g">>,
    <<"h","e","l","l","o"," ","t","h","e","r","e">> }

\* the roles of the rows from position k+1 on
RolesFrom(conv, k) == [i \in 1..(Len(conv) - k) |-> conv[k + i].role]

\* StudyCompanion.flashcard_sets after a call that gave h: _create_flashcards
\* stores the set it made before it returns its text
flashcard_sets_after(sets, h) ==
  IF h.by = "study" /\ h.response.kind = "_create_flashcards" THEN sets + 1 ELSE sets

Handle_DropsRaisingSkill(text, dt, os, llm, topic, internal) ==
  /\ phase = "ready"
  /\ calls < MaxCalls
  /\ \E h \in { handle_command(text,
                    [ twin |-> twin, skill |-> skill, provider |-> active_provider,
                      errors |-> initialization_errors ],
                    [ os |-> os, llm |-> llm, ts |-> now + dt,
                      provider |-> active_provider, topic |-> topic,
                      internal |-> internal ],
                    conversations, context_memory, todos) } :
        /\ now' = now + dt
        /\ conversations' = h.conv
        /\ context_memory' = h.ctx
        /\ todos' = h.todos
        /\ skill' = [a \in Skills |-> skill[a] /\ a \notin h.raisedIn]
        /\ flashcard_sets' = flashcard_sets_after(flashcard_sets, h)
        /\ last' = [ called |-> TRUE, text |-> text, response |-> h.response,
                     raised |-> h.raised, invoked |-> h.invoked,
                     given |-> h.given, logged |-> h.logged,
                     raisedIn |-> h.raisedIn, tip |-> h.tip, llm |-> h.llm,
                     query |-> h.query, backend |-> h.backend,
                     written |-> RolesFrom(h.conv, Len(conversations)),
                     by |-> h.by ]
  /\ calls' = calls + 1
  /\ cleared' = FALSE
  /\ UNCHANGED << extVars, phase, twin, initialization_errors, active_provider,
                  clients, user_preferences, learned, op, threadVars >>

\* one handle(text) call, dt hours after the previous event, with the
\* operating system, the LLM provider and the topic extraction behaving as
\* os, llm and topic say
Handle(text, dt, os, llm, topic, internal) ==
  /\ phase = "ready"
  /\ calls < MaxCalls
  /\ \E h \in { handle_command(text,
                    [ twin |-> twin, skill |-> skill, provider |-> active_provider,
                      errors |-> initialization_errors ],
                    [ os |-> os, llm |-> llm, ts |-> now + dt,
                      provider |-> active_provider, topic |-> topic,
                      internal |-> internal ],
                    conversations, context_memory, todos) } :
        /\ now' = now + dt
        /\ conversations' = h.conv
        /\ context_memory' = h.ctx
        /\ todos' = h.todos
        /\ flashcard_sets' = flashcard_sets_after(flashcard_sets, h)
        /\ last' = [ called |-> TRUE, text |-> text, response |-> h.response,
                     raised |-> h.raised, invoked |-> h.invoked,
                     given |-> h.given, logged |-> h.logged,
                     raisedIn |-> h.raisedIn, tip |-> h.tip, llm |-> h.llm,
                     query |-> h.query, backend |-> h.backend,
                     written |-> RolesFrom(h.conv, Len(conversations)),
                     by |-> h.by ]
  /\ calls' = calls + 1
  /\ cleared' = FALSE
  /\ UNCHANGED << extVars, phase, twin, skill, initialization_errors, active_provider,
                  clients, user_preferences, learned, op, threadVars >>

\* the provider clients built in a run of Spec: none, one or the other
ClientPairs == { << FALSE, FALSE >>, << TRUE, FALSE >>, << FALSE, TRUE >> }

Next ==
  \/ \E cfg \in Configs, import_ok \in BOOLEAN, ctor_fail \in CtorFailSets,
        c \in ClientPairs :
       Construct(cfg, import_ok, ctor_fail, c[1], c[2])
  \/ \E text \in TextPool, dt \in Delays, w \in Worlds :
       Handle(text, dt, w[1], w[2], w[3], "ok")

Spec == Init /\ [][Next]_vars


\* the same with an environment that behaves: the browser and the
\* applications start, the provider answers what it is asked, the topic is
\* extracted
NextMocked ==
  \/ \E cfg \in Configs, import_ok \in BOOLEAN, ctor_fail \in CtorFailSets,
        openai_client \in BOOLEAN, anthropic_client \in BOOLEAN :
       Construct(cfg, import_ok, ctor_fail, openai_client, anthropic_client)
  \/ \E text \in TextPool, dt \in Delays :
       Handle(text, dt, "ok", "answer", "topic", "ok")

SpecMocked == Init /\ [][NextMocked]_vars

InternalTexts ==
  { <<"d","e","v","i","c","e"," ","s","t","a","t","u","s">>,
    <<"o","p","e","n"," ","y","o","u","t","u","b","e">>,
    <<"o","p","e","n"," ","s","h","u","t","d","o","w","n"," ","n","o","w">>,
    <<"h","e","l","l","o"," ","t","h","e","r","e">> }

\* handle() calls during which an internal error may escape the routing
NextInternal ==
  \/ \E cfg \in Configs, ctor_fail \in { { }, { "twin" } } :
       Construct(cfg, TRUE, ctor_fail, TRUE, FALSE)
  \/ \E text \in InternalTexts, dt \in Delays, internal \in InternalOutcomes :
       Handle(text, dt, "ok", "answer", "topic", internal)

SpecInternal == Init /\ [][NextInternal]_vars

\* ------------------------------------------------------------------------
\* skills/digital_twin.py: preferences and clearing; Assistant.speak. Every
\* DatabaseManager method these call is missing from core/database.py, so the
\* call raises AttributeError, which each of them catches and logs.
\* ------------------------------------------------------------------------

\* DigitalTwin.learn_preference: the user_preferences table after the call
learn_preference(prefs, category, preference) ==
  IF { "get_preference", "set_preference" } \subseteq DatabaseManagerMethods
  THEN [prefs EXCEPT ![category] = preference]
  ELSE prefs

\* DigitalTwin.get_preference: the stored value, or default when there is
\* none or the database call raises
get_preference(prefs, category, default) ==
  IF "get_preference" \in DatabaseManagerMethods /\ prefs[category] # NoValue
  THEN prefs[category]
  ELSE default

\* DigitalTwin.clear_memory: the conversations table after the call
clear_memory(conv) ==
  IF "clear_conversation_history" \in DatabaseManagerMethods THEN << >> ELSE conv

\* the most turns analyze_patterns asks the database for
HistoryLimit == 100

\* the words analyze_patterns counts: position j of the lowercased, split
\* content of the user turn i, when the word has more than 4 characters
CountedWords(hist) ==
  { p \in (1..Len(hist)) \X (1..12) :
      /\ hist[p[1]].role = "user"
      /\ p[2] <= Len(Split(Lower(hist[p[1]].content)))
      /\ Len(Split(Lower(hist[p[1]].content))[p[2]]) > 4 }

WordAt(hist, p) == Split(Lower(hist[p[1]].content))[p[2]]

\* DigitalTwin.analyze_patterns: the error dict when the database call
\* raises, insufficient_data without turns, else the counts and the
\* engagement level by the number of turns read
analyze_patterns(conv) ==
  IF "get_conversation_history" \notin DatabaseManagerMethods
  THEN [ status |-> "error", total_interactions |-> 0, common_requests |-> << >>,
         engagement_level |-> "none" ]
  ELSE IF conv = << >>
  THEN [ status |-> "insufficient_data", total_interactions |-> 0,
         common_requests |-> << >>, engagement_level |-> "none" ]
  ELSE LET hist == IF Len(conv) > HistoryLimit
                   THEN SubSeq(conv, Len(conv) - HistoryLimit + 1, Len(conv))
                   ELSE conv
       IN [ status |-> "patterns",
            total_interactions |-> Len(hist),
            common_requests |->
              [ w \in { WordAt(hist, p) : p \in CountedWords(hist) } |->
                  Cardinality({ p \in CountedWords(hist) : WordAt(hist, p) = w }) ],
            engagement_level |-> IF Len(hist) > 50 THEN "high"
                                 ELSE IF Len(hist) > 20 THEN "medium"
                                 ELSE "low" ]

\* Assistant.speak: False without an engine or when the engine raises
speak(tts) == tts = "ok"

\* the engine at a speak() call: None, working, or raising
TtsOutcomes == { "none", "ok", "raises" }

\* the default handed to get_preference
PrefDefaults == { "system default" }

LearnPreference(category, preference) ==
  /\ phase = "ready" /\ twin
  /\ user_preferences' = learn_preference(user_preferences, category, preference)
  /\ learned' = [learned EXCEPT ![category] = preference]
  /\ op' = [ name |-> "learn_preference", key |-> category, arg |-> preference,
             result |-> NoValue ]
  /\ UNCHANGED << extVars, phase, twin, skill, initialization_errors, active_provider,
                  conversations, context_memory, todos, now, calls, last,
                  clients, flashcard_sets, cleared, threadVars >>

GetPreference(category, default) ==
  /\ phase = "ready" /\ twin
  /\ op' = [ name |-> "get_preference", key |-> category, arg |-> default,
             result |-> get_preference(user_preferences, category, default) ]
  /\ UNCHANGED << extVars, phase, twin, skill, initialization_errors, active_provider,
                  conversations, context_memory, todos, now, calls, last,
                  clients, flashcard_sets, user_preferences, learned, cleared,
                  threadVars >>

ClearMemory ==
  /\ phase = "ready" /\ twin
  /\ conversations' = clear_memory(conversations)
  /\ cleared' = TRUE
  /\ op' = [ name |-> "clear_memory", key |-> "default", arg |-> NoValue,
             result |-> NoValue ]
  /\ UNCHANGED << extVars, phase, twin, skill, initialization_errors, active_provider,
                  context_memory, todos, now, calls, last, clients,
                  flashcard_sets, user_preferences, learned, threadVars >>

GetRecentContext ==
  /\ phase = "ready" /\ twin
  /\ op' = [ name |-> "get_recent_context", key |-> "default", arg |-> NoValue,
             result |-> get_recent_context(conversations) ]
  /\ UNCHANGED << extVars, phase, twin, skill, initialization_errors, active_provider,
                  conversations, context_memory, todos, now, calls, last,
                  clients, flashcard_sets, user_preferences, learned, cleared,
                  threadVars >>

AnalyzePatterns ==
  /\ phase = "ready" /\ twin
  /\ op' = [ name |-> "analyze_patterns", key |-> "default", arg |-> NoValue,
             result |-> analyze_patterns(conversations) ]
  /\ UNCHANGED << extVars, phase, twin, skill, initialization_errors, active_provider,
                  conversations, context_memory, todos, now, calls, last,
                  clients, flashcard_sets, user_preferences, learned, cleared,
                  threadVars >>

Speak(tts) ==
  /\ phase = "ready"
  /\ op' = [ name |-> "speak", key |-> "none", arg |-> NoValue,
             result |-> speak(tts) ]
  /\ UNCHANGED << extVars, phase, twin, skill, initialization_errors, active_provider,
                  conversations, context_memory, todos, now, calls, last,
                  clients, flashcard_sets, user_preferences, learned, cleared,
                  threadVars >>

\* the texts given to handle() between the direct calls
FacadeTexts ==
  { <<"h","e","l","l","o"," ","t","h","e","r","e">>,
    <<"r","e","c","o","g","n","i","z","e"," ","f","a","c","e","s">>,
    <<"D","R","A","F","T"," ","S","T","U","D","Y"," ","A","G","E","N","D","A"," ","O","N"," ","G","R","O","U","P"," ","S","T","U","D","Y"," ","R","O","U","T","I","N","E">> }

\* the assistant used through handle(), speak() and the twin's methods
NextFacade ==
  \/ \E cfg \in Configs, ctor_fail \in { { }, { "twin" } } :
       Construct(cfg, TRUE, ctor_fail, TRUE, FALSE)
  \/ \E text \in FacadeTexts : Handle(text, 0, "ok", "answer", "topic", "ok")
  \/ \E k \in PrefKeys, v \in PrefValues : LearnPreference(k, v)
  \/ \E k \in PrefKeys, d \in PrefDefaults : GetPreference(k, d)
  \/ ClearMemory
  \/ GetRecentContext
  \/ AnalyzePatterns
  \/ \E tts \in TtsOutcomes : Speak(tts)

SpecFacade == Init /\ [][NextFacade]_vars

\* ------------------------------------------------------------------------
\* handle_command called from several threads on one Assistant. A thread
\* goes through the statements of handle_command one at a time: the user
\* turn is handed to remember_chat, the command is routed, the response is
\* handed to remember_chat. No statement of handle_command, of remember_chat
\* or of DatabaseManager acquires DatabaseManager.lock.
\* ------------------------------------------------------------------------

\* a remember_chat call: who made it, for which turn, and whether the caller
\* held the lock
Attempt(t, role) == [ thread |-> t, role |-> role, held |-> lock = t ]

\* lines 278-283: strip, then the user turn
T_LogUser(t, text) ==
  /\ phase = "ready" /\ calls < MaxCalls
  /\ thread[t].at = "idle" /\ ~IsBlank(text)
  /\ thread' = [thread EXCEPT ![t] = [Idle EXCEPT !.at = "user_logged", !.text = Strip(text)]]
  /\ conversations' = IF twin THEN remember_chat(conversations, "user", Strip(text))
                      ELSE conversations
  /\ attempts' = IF twin THEN Append(attempts, Attempt(t, "user")) ELSE attempts
  /\ calls' = calls + 1
  /\ UNCHANGED << extVars, phase, twin, skill, initialization_errors, active_provider,
                  context_memory, todos, now, last, clients, flashcard_sets,
                  storeVars, lock >>

\* line 286: response = self._route_command(text)
T_Route(t) ==
  /\ thread[t].at = "user_logged"
  /\ \E r \in { route_command(thread[t].text,
                   [ twin |-> twin, skill |-> skill, provider |-> active_provider,
                     errors |-> initialization_errors ],
                   [ os |-> "ok", llm |-> "answer", ts |-> now,
                     provider |-> active_provider, topic |-> "topic" ],
                   conversations, context_memory, todos) } :
        /\ thread' = [thread EXCEPT ![t].at = "routed", ![t].response = r.val]
        /\ context_memory' = r.ctx
        /\ todos' = r.todos
        /\ flashcard_sets' =
             flashcard_sets_after(flashcard_sets, [by |-> r.by, response |-> r.val])
  /\ UNCHANGED << extVars, phase, twin, skill, initialization_errors, active_provider,
                  conversations, now, calls, last, clients, storeVars, lock,
                  attempts >>

\* lines 289-292: the assistant turn, then return
T_LogAssistant(t) ==
  /\ thread[t].at = "routed"
  /\ conversations' = IF twin
                      THEN remember_chat(conversations, "assistant", thread[t].response)
                      ELSE conversations
  /\ attempts' = IF twin THEN Append(attempts, Attempt(t, "assistant")) ELSE attempts
  /\ thread' = [thread EXCEPT ![t] = Idle]
  /\ UNCHANGED << extVars, phase, twin, skill, initialization_errors, active_provider,
                  context_memory, todos, now, calls, last, clients,
                  flashcard_sets, storeVars, lock >>

\* the texts the threads send
ThreadTexts == { <<"h","e","l","l","o"," ","t","h","e","r","e">>, <<"o","p","e","n"," ","y","o","u","t","u","b","e">>, <<"a","d","d"," ","e","v","e","n","t"," ","r","o","u","t","i","n","e"," ","a","t"," ","1","0",":","0","0"," ","f","o","r"," ","3","0">> }

\* calls begun by all threads together in a run of SpecThreads
NextThreads ==
  \/ \E cfg \in { DefaultConfig, Skills \ {"pc", "context"} } :
       Construct(cfg, TRUE, { }, TRUE, FALSE)
  \/ \E t \in Threads, text \in ThreadTexts : T_LogUser(t, text)
  \/ \E t \in Threads : T_Route(t)
  \/ \E t \in Threads : T_LogAssistant(t)

SpecThreads == Init /\ [][NextThreads]_vars

\* ------------------------------------------------------------------------
\* core/database.py, get_db_manager, called from several threads. The
\* function takes no lock: a thread goes through its statements one at a
\* time and another thread may run between any two of them.
\* ------------------------------------------------------------------------

\* what get_db_manager leaves alone
otherVars == << phase, twin, skill, initialization_errors, active_provider,
               conversations, context_memory, todos, now, calls, last,
               clients, flashcard_sets, storeVars, threadVars, ctxVars,
               coordVars, examVars >>

\* line 67: if _db_instance is None
G_Check(t) ==
  /\ db_thread[t].at = "idle" /\ db_thread[t].gets < MaxGets
  /\ db_thread' = [db_thread EXCEPT
                     ![t].at = IF db_instance = 0 THEN "construct" ELSE "return",
                     ![t].gets = @ + 1]
  /\ UNCHANGED << db_instance, db_created, db_returned,
                  otherVars >>

\* line 68, right-hand side: DatabaseManager("assistant.db")
G_Construct(t) ==
  /\ db_thread[t].at = "construct"
  /\ db_created' = db_created + 1
  /\ db_thread' = [db_thread EXCEPT ![t].at = "assign", ![t].made = db_created + 1]
  /\ UNCHANGED << db_instance, db_returned,
                  otherVars >>

\* line 68: _db_instance = the instance just made
G_Assign(t) ==
  /\ db_thread[t].at = "assign"
  /\ db_instance' = db_thread[t].made
  /\ db_thread' = [db_thread EXCEPT ![t].at = "return"]
  /\ UNCHANGED << db_created, db_returned,
                  otherVars >>

\* line 69: return _db_instance
G_Return(t) ==
  /\ db_thread[t].at = "return"
  /\ db_returned' = db_returned \cup { db_instance }
  /\ db_thread' = [db_thread EXCEPT ![t].at = "idle"]
  /\ UNCHANGED << db_instance, db_created,
                  otherVars >>

NextSingleton ==
  \E t \in DbThreads : G_Check(t) \/ G_Construct(t) \/ G_Assign(t) \/ G_Return(t)

SpecSingleton == Init /\ [][NextSingleton]_vars

\* ------------------------------------------------------------------------
\* skills/hyper_context.py: react_to_text called directly, one call an hour
\* ------------------------------------------------------------------------

ContextTexts ==
  { <<"h","e","l","l","o"," ","t","h","e","r","e">>,
    <<"o","p","e","n"," ","y","o","u","t","u","b","e">> }

\* HyperContext.react_to_text(text): the item is stored, the tip is returned
ReactToText(text) ==
  /\ Len(received) < MaxReacts
  /\ text = <<"o","p","e","n"," ","y","o","u","t","u","b","e">> =>
       Cardinality({ i \in 1..Len(received) : received[i] = text }) < MaxOdd
  /\ now' = now + 1
  /\ context_memory' = react_to_text(context_memory, text, now + 1).ctx
  /\ received' = Append(received, text)
  /\ op' = [ name |-> "react_to_text", key |-> "none", arg |-> NoValue,
             result |-> NoValue ]
  /\ UNCHANGED << phase, twin, skill, initialization_errors, active_provider,
                  conversations, todos, calls, last, clients, flashcard_sets,
                  user_preferences, learned, cleared, threadVars, dbVars,
                  coordVars, examVars >>

NextContext == \E text \in ContextTexts : ReactToText(text)

SpecContext == Init /\ [][NextContext]_vars

\* ------------------------------------------------------------------------
\* skills/coord.py: coordinate_action and approve_action called directly.
\* An action id is made from the clock; the ids are numbered here in the
\* order in which they are made.
\* ------------------------------------------------------------------------

\* the ids handed to approve_action: those made so far and one never made
ActionIds == 1..(MaxActions + 1)

\* what the coordinator's calls leave alone
coordFrame ==
  << phase, twin, skill, initialization_errors, active_provider, conversations,
     context_memory, todos, now, calls, last, clients, flashcard_sets,
     user_preferences, learned, cleared, threadVars, dbVars, ctxVars,
     examVars >>

\* coordinate_action(action_type, details, require_confirm): with
\* confirmation the action is stored as pending, without it nothing is stored
CoordinateAction(require_confirm) ==
  /\ Len(pending_actions) < MaxActions
  /\ pending_actions' = IF require_confirm
                        THEN Append(pending_actions, "pending_approval")
                        ELSE pending_actions
  /\ op' = [ name |-> "coordinate_action", key |-> "none", arg |-> NoValue,
             result |-> IF require_confirm THEN "prepared" ELSE "executed" ]
  /\ UNCHANGED << coordination_history, coordFrame >>

\* approve_action(action_id): an id that is not in pending_actions is
\* answered "Action not found"; else the action is marked approved and
\* appended to the history (it stays in pending_actions)
ApproveAction(action_id) ==
  /\ Len(coordination_history) < MaxApprovals
  /\ IF action_id \notin DOMAIN pending_actions
     THEN /\ op' = [ name |-> "approve_action", key |-> "unknown", arg |-> NoValue,
                     result |-> "Action not found" ]
          /\ UNCHANGED << pending_actions, coordination_history >>
     ELSE /\ pending_actions' = [pending_actions EXCEPT ![action_id] = "approved"]
          /\ coordination_history' = Append(coordination_history, action_id)
          /\ op' = [ name |-> "approve_action", key |-> "known", arg |-> NoValue,
                     result |-> "approved" ]
  /\ UNCHANGED coordFrame

NextCoord ==
  \/ \E require_confirm \in BOOLEAN : CoordinateAction(require_confirm)
  \/ \E action_id \in ActionIds : ApproveAction(action_id)

SpecCoord == Init /\ [][NextCoord]_vars

\* ------------------------------------------------------------------------
\* skills/exam_prep.py: ExamPrep.route called directly, a practice test and
\* the replies to it
\* ------------------------------------------------------------------------

\* SUBJECT_TEMPLATES: the expected answers of each subject's questions
SUBJECT_TEMPLATES ==
  [ math |-> << <<"2","x">>, <<"x","^","2"," ","+"," ","C">>, <<"e">> >>,
    python |-> << <<"[","0",","," ","1",","," ","4","]">>, <<"K","e","y","-","v","a","l","u","e"," ","m","a","p","p","i","n","g">>, <<"S","t","y","l","e"," ","g","u","i","d","e"," ","f","o","r"," ","P","y","t","h","o","n"," ","c","o","d","e">> >> ]

\* the subject named by m.group(1).strip().lower(), "" for no template
SubjectOf(t) ==
  LET subject == Strip(SubSeq(t, Find(t, <<"p","r","a","c","t","i","c","e"," ","t","e","s","t"," ">>) + 14, Len(t)))
  IN IF subject = <<"m","a","t","h">> THEN "math"
     ELSE IF subject = <<"p","y","t","h","o","n">> THEN "python"
     ELSE ""

\* the orders random.sample(qs, 3) can give three questions
SampleOrders == { o \in [1..3 -> 1..3] : \A i, j \in 1..3 : o[i] = o[j] => i = j }

\* re.findall(r"A(\d)=(.*?)(?:,|$)", text) from position i on: the pairs of
\* digit and answer text
RECURSIVE FindAnswers(_, _)
FindAnswers(s, i) ==
  IF i + 2 > Len(s) THEN << >>
  ELSE IF s[i] = "A" /\ s[i+1] \in DIGITS /\ s[i+2] = "="
  THEN LET ends == { j \in (i+3)..Len(s) : s[j] = "," }
           j == IF ends = { } THEN Len(s) + 1
                ELSE CHOOSE e \in ends : \A f \in ends : e <= f
       IN << << DigitVal(s[i+1]), SubSeq(s, i + 3, j - 1) >> >> \o FindAnswers(s, j + 1)
  ELSE FindAnswers(s, i + 1)

\* the loop of lines 38-43: the entries counted as correct
CorrectCount(ans, exam) ==
  Cardinality({ k \in 1..Len(ans) :
                  /\ ans[k][1] - 1 >= 0 /\ ans[k][1] - 1 < Len(exam)
                  /\ Contains(Lower(Strip(ans[k][2])), Lower(Strip(exam[ans[k][1]]))) })

\* score = int((correct / len(self.twin.last_exam)) * 100)
ExamPrep_score(text, exam) ==
  (CorrectCount(FindAnswers(text, 1), exam) * 100) \div Len(exam)

\* ExamPrep.route(text): a practice test stores the sample in twin.last_exam,
\* an answers reply is scored against it
ExamRoute(text, order) ==
  /\ \E kind \in { ExamPrep_route(text).kind } :
       IF kind = "practice_test" /\ SubjectOf(Lower(text)) # ""
       THEN /\ last_exam' = [i \in 1..3 |-> SUBJECT_TEMPLATES[SubjectOf(Lower(text))][order[i]]]
            /\ op' = [ name |-> "exam_route", key |-> "practice_test",
                       arg |-> text, result |-> 0 ]
       ELSE IF kind = "answers" /\ last_exam # << >>
       THEN /\ op' = [ name |-> "exam_route", key |-> "score", arg |-> text,
                       result |-> ExamPrep_score(text, last_exam) ]
            /\ UNCHANGED last_exam
       ELSE /\ op' = [ name |-> "exam_route", key |-> "other", arg |-> text,
                       result |-> 0 ]
            /\ UNCHANGED last_exam
  /\ UNCHANGED << phase, twin, skill, initialization_errors, active_provider,
                  conversations, context_memory, todos, now, calls, last, clients,
                  flashcard_sets, user_preferences, learned, cleared, threadVars,
                  dbVars, ctxVars, coordVars >>

ExamTexts ==
  { <<"p","r","a","c","t","i","c","e"," ","t","e","s","t"," ","m","a","t","h">>,
    <<"p","r","a","c","t","i","c","e"," ","t","e","s","t"," ","p","y","t","h","o","n">>,
    <<"p","r","a","c","t","i","c","e"," ","t","e","s","t"," ","a","r","t">>,
    <<"p","r","e","d","i","c","t"," ","s","c","o","r","e">>,
    <<"a","n","s","w","e","r","s",":"," ","A","1","=","2","x">>,
    <<"a","n","s","w","e","r","s",":"," ","A","9","=","2","x">>,
    <<"a","n","s","w","e","r","s",":"," ","A","1","=","e",","," ","A","2","=","e",","," ","A","3","=","e">>,
    <<"a","n","s","w","e","r","s",":"," ","A","1","=","2","x",","," ","A","2","=","x","^","2"," ","+"," ","c",","," ","A","3","=","e">>,
    <<"a","n","s","w","e","r","s",":"," ","A","1","=","[","0",","," ","1",","," ","4","]",","," ","A","2","=","s","t","y","l","e"," ","g","u","i","d","e"," ","f","o","r"," ","p","y","t","h","o","n"," ","c","o","d","e">>,
    <<"a","n","s","w","e","r","s",":"," ","A","1","=","2","x",","," ","A","1","=","2","x",","," ","A","1","=","2","x",","," ","A","1","=","2","x">> }

NextExam == \E text \in ExamTexts, order \in SampleOrders : ExamRoute(text, order)

SpecExam == Init /\ [][NextExam]_vars
\* ------------------------------------------------------------------------
\* Properties
\* ------------------------------------------------------------------------

\* the text is empty or only whitespace
AllSpaces(text) == \A i \in 1..Len(text) : text[i] = " "

\* a handle() call was made with a text that is not empty or whitespace
CalledNonBlank == last.called /\ ~AllSpaces(last.text)

\* the lowercased text holds one of the system keywords
HasSystemKeyword(text) ==
  \E k \in { <<"s","t","a","t","u","s">>, <<"h","e","a","l","t","h">>, <<"d","i","a","g","n","o","s","t","i","c">> } : Contains(Lower(text), k)

\* the order in which the skills are registered
CanonicalOrder ==
  << "pc", "cross", "predictor", "dark", "threat", "negotiator", "ar", "voice",
     "twin_agent", "coord", "study", "lecture", "kg", "exam", "skill", "collab",
     "lang_guard", "research", "autopilot" >>

\* the trigger keywords of a skill
KeywordsOf(a) ==
  LET rows == RouteTable \o StudyTable
  IN rows[CHOOSE i \in 1..Len(rows) : rows[i].attr = a].keywords

\* the enabled skills whose trigger keywords appear in the text, in
\* registration order
Matching(text) ==
  SelectSeq(CanonicalOrder,
            LAMBDA a : skill[a] /\ ContainsAny(Lower(Strip(text)), KeywordsOf(a)))

\* C1: every handle() call returns a string, never null, and no exception
\* escapes it, whatever the skills enabled and whatever the handlers return or
\* raise.
C1_HandleReturnsString ==
  last.called => (~last.raised /\ last.response # None)

\* C2: a handle() call with a non-empty text writes exactly two turns to the
\* memory store, the user's and then the assistant's, in the same session.
C2_TwoTurnsPerCall ==
  CalledNonBlank =>
    /\ last.written = << "user", "assistant" >>
    /\ Len(conversations) >= 2
    /\ conversations[Len(conversations)].session_id
         = conversations[Len(conversations) - 1].session_id

\* C3: a handle() call with an empty or whitespace-only text returns the fixed
\* prompt and changes nothing: no turn is written, no skill handler and no
\* hyper-context step runs, the LLM is not called, and no skill's state changes.
C3_BlankInputChangesNothing ==
  [][ (calls' = calls + 1 /\ AllSpaces(last'.text)) =>
        /\ last'.response = R("router", "provide_a_command")
        /\ ~last'.raised
        /\ last'.written = << >> /\ conversations' = conversations
        /\ last'.invoked = << >> /\ ~last'.tip /\ ~last'.llm
        /\ context_memory' = context_memory
        /\ todos' = todos ]_vars

\* a whitespace-only call made after a call that left something in the
\* hyper-context memory
C3_Witness ==
  /\ last.called /\ last.text = <<" "," "," ">>
  /\ calls = 2 /\ context_memory # << >>
  /\ last.response = R("router", "provide_a_command")

\* C4: a non-empty text that holds a system keyword gets the status report,
\* which carries the number of enabled skills; no skill handler, no
\* hyper-context step and no LLM call is made, also when the text holds a
\* skill's trigger keyword.
C4_SystemKeywordsGiveStatus ==
  (CalledNonBlank /\ HasSystemKeyword(last.text)) =>
    /\ last.response.src = "system" /\ last.response.kind = "status_report"
    /\ last.response.n = Cardinality({ a \in Skills : skill[a] })
    /\ last.invoked = << >> /\ ~last.tip /\ ~last.llm

\* "device status" with the cross-device skill enabled, whose trigger it holds
C4_Witness ==
  /\ last.called /\ last.text = <<"d","e","v","i","c","e"," ","s","t","a","t","u","s">>
  /\ skill["cross"] /\ skill["context"]
  /\ last.response.src = "system" /\ last.response.n > 1

C6_RaiseIsNoMatch ==
  (CalledNonBlank /\ last.raisedIn # { } /\ last.by \in { "llm", "router" }) =>
    \A i \in 1..Len(Matching(last.text)) :
      Matching(last.text)[i] \in Range(last.invoked)

\* the skills that act only with consent or confirmation
ConsentGated ==
  { "cross", "negotiator", "ar", "voice", "coord", "lecture", "lang_guard", "autopilot" }

\* the response is the skill's text saying that consent or confirmation is
\* needed
IsConsentRefusal(resp) ==
  \/ resp.kind = "requires_consent"
  \/ resp.src \in { "cross", "coord", "voice" } /\ resp.arg = << "flag_set" >>
  \/ resp.src = "ar" /\ resp.arg = << "flag_clear" >>

\* C7: consent is required (every REQUIRE_* setting is on) and none has been
\* given; a consent-gated skill whose trigger matches answers with its refusal
\* text and changes nothing, the autopilot's todo list included.
C7_GatedSkillsRefuseWithoutConsent ==
  [][ (calls' = calls + 1 /\ last'.by \in ConsentGated) =>
        (IsConsentRefusal(last'.response) /\ todos' = todos) ]_vars

\* C8: when no skill handles the text the LLM backend is called with it, and
\* when the backend is unavailable or the provider call fails the response is
\* the fixed "knowledge base unavailable" message.
C8_BackendFailureGivesFixedMessage ==
  (CalledNonBlank /\ last.llm) =>
    /\ last.query = Strip(last.text)
    /\ last.backend \in { "unavailable", "error" } =>
         last.response = R("router", "knowledge_base_unavailable")

\* C9: constructing the Assistant never raises because of a skill, and a skill
\* is left out only with its failure recorded or for want of the twin.
C9_ConstructionNeverRaises ==
  /\ phase # "crashed"
  /\ phase = "ready" =>
       \A i \in 1..Len(initialization_errors) :
         \E a \in Skills \cup { "twin" } :
           initialization_errors[i] = (IF a = "twin" THEN "Digital twin" ELSE SkillName[a])
           /\ (a \in Skills => ~skill[a])

\* C10: with PC control enabled, handle("open youtube") answers that the
\* browser went to the YouTube URL and logs exactly two turns, after any
\* earlier commands and at any hour (a browser that fails to start is not the
\* claim's case).
C10_OpenYoutube ==
  (last.called /\ last.text = <<"o","p","e","n"," ","y","o","u","t","u","b","e">> /\ skill["pc"]
     /\ last.response.kind # "failed_open_url") =>
    /\ last.response = RA("pc", "opened_url", <<"h","t","t","p","s",":","/","/","y","o","u","t","u","b","e",".","c","o","m">>)
    /\ Len(last.written) = 2

\* C11: with the study companion enabled and a provider that answers the
\* flashcard prompt with a JSON array, handle("flashcards on machine
\* learning") returns the listing of the generated question/answer pairs.
C11_FlashcardsListGeneratedPairs ==
  (last.called /\ last.text = <<"f","l","a","s","h","c","a","r","d","s"," ","o","n"," ","m","a","c","h","i","n","e"," ","l","e","a","r","n","i","n","g">>
     /\ skill["study"] /\ active_provider # "none") =>
    last.response = RA("study", "_create_flashcards", << "generated_pairs" >>)

\* C12: a get_preference(x, default) made after learn_preference(x, v)
\* returns v, the value last given for x, and not default.
C12_PreferenceRoundTrip ==
  (op.name = "get_preference" /\ learned[op.key] # NoValue) =>
    op.result = learned[op.key]

\* C13: after clear_memory, get_recent_context returns no turn, and
\* get_preference still returns the value given for a key.
C13_ClearKeepsPreferences ==
  cleared =>
    /\ op.name = "get_recent_context" => op.result = << >>
    /\ (op.name = "get_preference" /\ learned[op.key] # NoValue) =>
         op.result = learned[op.key]

C15_WritesSerializedUnderLock ==
  \A i \in 1..Len(attempts) :
    /\ attempts[i].held
    /\ attempts[i].role = "assistant" =>
         /\ i > 1
         /\ attempts[i-1].thread = attempts[i].thread
         /\ attempts[i-1].role = "user"

\* the providers whose client was built
Available == { p \in { "openai", "anthropic" } : clients[p] }

\* C16: once the backend is initialized the active provider is the
\* configured default when its client is there, else a provider whose client
\* is there, else none; with no active provider get_answer returns its fixed
\* "no AI backend" message and no provider is called.
C16_ProviderSelection ==
  /\ phase # "new" =>
       IF DEFAULT_AI_PROVIDER \in Available THEN active_provider = DEFAULT_AI_PROVIDER
       ELSE IF Available # { } THEN active_provider \in Available
       ELSE active_provider = "none"
  /\ (last.llm /\ active_provider = "none") =>
       /\ last.response = R("llm", "no_ai_backend")
       /\ last.backend = "unavailable"

\* both clients were built, the default provider is the active one, and it
\* answered a call
C16_Witness ==
  /\ phase = "ready" /\ Available = { "openai", "anthropic" }
  /\ active_provider = DEFAULT_AI_PROVIDER
  /\ last.llm /\ last.response = RA("llm", "answer", << DEFAULT_AI_PROVIDER >>)

\* C17: a matching handler that returns None or an empty string is skipped:
\* the response of a routed call is never empty, and when a skill gave it,
\* that skill is the last handler consulted.
C17_EmptyResultIsSkipped ==
  (CalledNonBlank /\ ~HasSystemKeyword(last.text) /\ ~last.tip) =>
    /\ Truthy(last.response)
    /\ last.by \in Skills => last.by = last.invoked[Len(last.invoked)]

\* C18: once the Assistant is constructed, no handle() or speak() call and no
\* direct twin call changes which skills are enabled, whether the twin is
\* there, or the initialization errors (the dispatch order is the fixed order
\* of the router's tables).
C18_RegistryFixedAfterConstruction ==
  [][ phase = "ready" =>
        /\ phase' = "ready"
        /\ skill' = skill
        /\ twin' = twin
        /\ initialization_errors' = initialization_errors ]_vars

\* a call in which the collaboration skill raised, followed by speak(): the
\* skill is still enabled
C18_Witness ==
  /\ last.called /\ "collab" \in last.raisedIn /\ skill["collab"]
  /\ op.name = "speak"

\* C19: only handle_command records turns: the turns a call adds are its own
\* user turn and assistant turn or, when the store fails, none; a handler
\* that ran during the call added no turn.
C19_OnlyRouterWritesTurns ==
  last.called =>
    /\ last.written \in { << >>, << "user", "assistant" >> }
    /\ Len(conversations) <= 2 * calls

\* the autopilot, which holds the twin, handled the call and changed the
\* twin's todo list, and no turn was added
C19_Witness ==
  /\ last.called /\ twin /\ last.by = "autopilot"
  /\ todos # << >> /\ last.written = << >>

\* the response carries the text of an exception (f"...{e}")
CarriesExceptionText(resp) ==
  resp.kind \in { "error_processing_request", "failed_open_url", "failed_open_app",
                  "flashcard_error" }

\* C20: a failure response of handle() is a static text: it never carries
\* the text of the exception.
C20_FailureTextsAreStatic ==
  last.called => ~CarriesExceptionText(last.response)

\* C21: when an internal error escapes the routing, handle() does not raise:
\* it returns the error message, and with the twin that message is recorded
\* as the assistant turn after the call's user turn.
C21_InternalErrorBecomesTurn ==
  (last.called /\ "router" \in last.raisedIn) =>
    /\ ~last.raised
    /\ last.response = R("router", "error_processing_request")
    /\ twin =>
         /\ last.written = << "user", "assistant" >>
         /\ conversations[Len(conversations)].content = last.response

\* the engagement level the thresholds give for n turns
EngagementFor(n) == IF n > 50 THEN "high" ELSE IF n > 20 THEN "medium" ELSE "low"

\* C22: analyze_patterns classifies engagement by the number of turns of the
\* session (each handle() call with the twin gives two), once it has turns: more
\* than 50 high,
\* more than 20 medium, otherwise low; only words of user turns are counted.
C22_EngagementByTurnCount ==
  (op.name = "analyze_patterns" /\ calls > 0 /\ ~cleared) =>
    /\ op.result.engagement_level = EngagementFor(2 * calls)
    /\ \A w \in DOMAIN op.result.common_requests :
         \E i \in 1..Len(conversations) :
           /\ conversations[i].role = "user"
           /\ w \in Range(Split(Lower(conversations[i].content)))

\* C23: every call handle() makes to the LLM backend is given the configured
\* timeout, whichever provider is active.
C23_BackendCallHasTimeout ==
  (last.called /\ last.backend \in LlmOutcomes) =>
    "timeout" \in provider_call_kwargs(active_provider)

\* C24: the store is a singleton: at most one DatabaseManager is ever
\* created and every get_db_manager call returns that same instance, also
\* when the first calls run concurrently.
C24_OneDatabaseManager ==
  /\ db_created <= 1
  /\ Cardinality(db_returned) <= 1

\* C25: the input is lowercased for keyword matching only: every skill
\* handler consulted and the LLM backend get the trimmed input in its
\* original case, and so does the store as the content of the user turn.
C25_OriginalCasePassedOn ==
  CalledNonBlank =>
    /\ \A i \in 1..Len(last.given) : last.given[i] = Strip(last.text)
    /\ last.llm => last.query = Strip(last.text)
    /\ (twin /\ "router" \notin last.raisedIn) => last.logged = << Strip(last.text) >>
    /\ ~twin => last.logged = << >>
    /\ (skill["context"] /\ ~HasSystemKeyword(last.text)) =>
         context_memory[Len(context_memory)].text = Strip(last.text)

\* an upper-case command whose keyword matched after lowercasing: the handler
\* got it in upper case
C25_Witness ==
  /\ last.called /\ twin
  /\ Lower(last.text) # last.text
  /\ last.invoked # << >>
  /\ last.given[1] = last.text
  /\ last.logged = << last.text >>

\* C26: with hyper-context enabled, a handle() call with a non-empty command
\* that holds no system keyword gives the text to react_to_text exactly once
\* (one item is appended to context_memory); when react_to_text returns a
\* tip, the tip is the response and no other skill and no LLM backend is
\* invoked (no handler was consulted, the todo list is as before).
C26_HyperContextFirst ==
  [][ ( /\ calls' = calls + 1
        /\ skill["context"]
        /\ ~AllSpaces(last'.text)
        /\ ~HasSystemKeyword(last'.text) ) =>
      /\ context_memory' =
           Append(context_memory,
                  context_memory'[Len(context_memory')])
      /\ context_memory'[Len(context_memory')].text = Strip(last'.text)
      /\ last'.tip =>
           /\ last'.by = "context" /\ Truthy(last'.response)
           /\ last'.invoked = << >> /\ ~last'.llm /\ last'.backend = "unused"
           /\ todos' = todos ]_vars

\* a tip was the response to a command that holds the trigger keyword of an
\* enabled skill, which was not consulted
C26_Witness ==
  /\ last.called /\ skill["context"] /\ last.tip
  /\ Matching(last.text) # << >>
  /\ last.invoked = << >> /\ last.by = "context"

\* the shell command shuts the machine down or restarts it
IsShutdownCommand(cmd) ==
  Split(cmd) # << >> /\
  Split(cmd)[1] \in { <<"s","h","u","t","d","o","w","n">>, <<"r","e","b","o","o","t">>, <<"p","o","w","e","r","o","f","f">>, <<"h","a","l","t">> }

\* C27: whatever text PCControl.route gets, no shutdown or restart command
\* is executed: when route reports an application as opened, the command it
\* ran is not one, and a text naming shutdown or restart is answered by the
\* confirmation message.
C27_NoShutdownExecuted ==
  (last.called /\ last.by = "pc") =>
    /\ last.response.kind = "opened_app" =>
         ~IsShutdownCommand(app_command(last.response.arg))
    /\ Contains(Lower(last.text), <<"s","h","u","t","d","o","w","n">>) =>
         last.response = R("pc", "confirm_shutdown")

\* C28: after any sequence of react_to_text calls, context_memory holds at
\* most 50 items, and they are the most recently received texts, in the
\* order in which they arrived.
C28_ContextMemoryIsRecentWindow ==
  /\ Len(context_memory) <= 50
  /\ Len(context_memory) = IF Len(received) <= 50 THEN Len(received) ELSE 50
  /\ \A i \in 1..Len(context_memory) :
       context_memory[i].text = received[Len(received) - Len(context_memory) + i]

\* more than 50 texts were received, and the second text is still held, no
\* longer at the front
C28_Witness ==
  /\ Len(received) > 50 /\ Len(context_memory) = 50
  /\ \E i \in 2..50 : context_memory[i].text = <<"o","p","e","n"," ","y","o","u","t","u","b","e">>

\* C29: after any sequence of coordinate_action and approve_action calls, an
\* action is in coordination_history only through approve_action of its id
\* (it is a stored action marked approved) and at most once, also when its
\* id is approved again; approve_action of an unknown id changes nothing.
C29_ApprovedOnceInHistory ==
  [][ /\ \A id \in ActionIds :
           Cardinality({ i \in 1..Len(coordination_history') :
                           coordination_history'[i] = id }) <= 1
      /\ \A i \in 1..Len(coordination_history') :
           /\ coordination_history'[i] \in DOMAIN pending_actions'
           /\ pending_actions'[coordination_history'[i]] = "approved"
      /\ (op'.name = "approve_action" /\ op'.key = "unknown") =>
           UNCHANGED coordVars ]_vars

\* C30: the score reported for an "answers:" reply after a practice test is
\* a whole percentage from 0 to 100, whatever entries the reply holds,
\* repeated answer numbers included.
C30_ScoreIsPercentage ==
  (op.name = "exam_route" /\ op.key = "score") =>
    op.result \in 0..100

====
